---- MODULE Spec2Model ----
(***************************************************************************)
(* Forecast engine, risk/opportunity overlay, P&L aggregator and the       *)
(* forecast commit of the planning view of CFO-companion.                  *)
(*                                                                         *)
(* Conventions of the model                                                *)
(*  - a period 'YYYY-MM' is the integer YYYY*12 + (MM-1): the encoding is  *)
(*    one-to-one on well-formed periods and keeps their lexical order;     *)
(*  - an absent optional string (undefined) is the string "undefined";     *)
(*  - amounts are integers; a quotient the code computes in floating point *)
(*    is the exact rational <<numerator, denominator>>, denominator > 0;   *)
(*  - in the sums of the aggregator and of the Reporting view an amount x  *)
(*    with x = h * 2^20 + n, |n| < 2^19, stands for the number             *)
(*    h * 2^53 + n: an amount below 2^19 stands for itself, Two53 for      *)
(*    2^53, and every sum is rounded as binary64 rounds it;                *)
(*  - a rate (growthRate, percentOfRevenue) is held in hundredths;         *)
(*  - a JavaScript Date is its UTC calendar reading [y, m, d, h]; the      *)
(*    local-time methods go through the host time zone tz.                 *)
(***************************************************************************)
EXTENDS Integers, Sequences, FiniteSets, TLC

VARIABLES
    tz,                        \* host time zone of the JavaScript runtime
    data,                      \* AppData: records, assumptions, plans, opportunities, accounts
    activePlanId,              \* Forecast view state
    selectedAccountCode,
    selectedProductLineCode,
    selectedCostCenterCode,
    draftMethod,
    draftParams,
    uuid,                      \* number of ids drawn from crypto.randomUUID()
    now,                       \* host clock: new Date().toISOString().slice(0, 7)
    call                       \* the last engine call: its arguments and its result

vars == <<tz, data, activePlanId, selectedAccountCode, selectedProductLineCode,
          selectedCostCenterCode, draftMethod, draftParams, uuid, now, call>>

ui == <<activePlanId, selectedAccountCode, selectedProductLineCode,
        selectedCostCenterCode, draftMethod, draftParams>>

----------------------------------------------------------------------------
(* Strings of the program *)

Undefined == "undefined"
ACTUAL == "Actual"
BUDGET == "Budget"
FORECAST == "Forecast"

\* JavaScript truthiness of an optional string: undefined and '' are falsy
Truthy(s) == s # Undefined /\ s # ""

\* s || ''
OrEmpty(s) == IF Truthy(s) THEN s ELSE ""

\* params.f || 0
OrZero(params, f) == IF f \in DOMAIN params THEN params[f] ELSE 0

\* FinancialRecord and ForecastAssumption
Rec(id, planId, period, type, accountCode, costCenterCode, productLineCode, amount) ==
    [id |-> id, planId |-> planId, period |-> period, type |-> type,
     accountCode |-> accountCode, costCenterCode |-> costCenterCode,
     productLineCode |-> productLineCode, amount |-> amount]

Assumption(id, planId, accountCode, productLineCode, costCenterCode, method, params) ==
    [id |-> id, planId |-> planId, accountCode |-> accountCode,
     productLineCode |-> productLineCode, costCenterCode |-> costCenterCode,
     method |-> method, params |-> params]

----------------------------------------------------------------------------
(* Periods and calendar *)

Period(y, m) == y * 12 + (m - 1)
YearOf(p) == p \div 12
MonthOf(p) == (p % 12) + 1

IsLeap(y) == (y % 4 = 0 /\ y % 100 # 0) \/ y % 400 = 0

DaysInMonth(y, m) ==
    IF m = 2 THEN (IF IsLeap(y) THEN 29 ELSE 28)
    ELSE IF m \in {4, 6, 9, 11} THEN 30 ELSE 31

\* MakeDay: a month index that may exceed 11 carries into the year, a day
\* that exceeds the month's length carries into the following months
RECURSIVE CarryDays(_, _, _, _)
CarryDays(y, m, d, h) ==
    IF d > DaysInMonth(y, m)
    THEN IF m = 12 THEN CarryDays(y + 1, 1, d - DaysInMonth(y, m), h)
                   ELSE CarryDays(y, m + 1, d - DaysInMonth(y, m), h)
    ELSE [y |-> y, m |-> m, d |-> d, h |-> h]

MakeDate(y, month0, d, h) ==
    CarryDays(y + (month0 \div 12), (month0 % 12) + 1, d, h)

NextDay(t) ==
    IF t.d < DaysInMonth(t.y, t.m) THEN [t EXCEPT !.d = t.d + 1]
    ELSE IF t.m = 12 THEN [t EXCEPT !.y = t.y + 1, !.m = 1, !.d = 1]
    ELSE [t EXCEPT !.m = t.m + 1, !.d = 1]

PrevDay(t) ==
    IF t.d > 1 THEN [t EXCEPT !.d = t.d - 1]
    ELSE IF t.m = 1 THEN [t EXCEPT !.y = t.y - 1, !.m = 12, !.d = 31]
    ELSE [t EXCEPT !.m = t.m - 1, !.d = DaysInMonth(t.y, t.m - 1)]

\* a shift of less than a day
ShiftHours(t, k) ==
    LET h2 == t.h + k IN
    IF h2 < 0 THEN [PrevDay(t) EXCEPT !.h = h2 + 24]
    ELSE IF h2 >= 24 THEN [NextDay(t) EXCEPT !.h = h2 - 24]
    ELSE [t EXCEPT !.h = h2]

----------------------------------------------------------------------------
(* Host time zone: the local-time reading of a Date *)

TimeZones == {"UTC", "America/Phoenix", "America/New_York"}

StdOffset(zone) ==
    CASE zone = "UTC" -> 0
      [] zone = "America/Phoenix" -> 0 - 7
      [] zone = "America/New_York" -> 0 - 5

\* US daylight time: second Sunday of March to first Sunday of November
SundayShift(y) == (1 + ((y * 5) \div 4)) % 7

InDST(zone, t) ==
    /\ zone = "America/New_York"
    /\ \/ (t.m > 3 /\ t.m < 11)
       \/ (t.m = 3 /\ t.d >= 14 - SundayShift(t.y))
       \/ (t.m = 11 /\ t.d < 7 - SundayShift(t.y))

OffsetAt(zone, local) == StdOffset(zone) + (IF InDST(zone, local) THEN 1 ELSE 0)

\* LocalTime(t): the local reading of the UTC instant t
LocalTime(zone, t) ==
    LET s == ShiftHours(t, StdOffset(zone)) IN
    IF InDST(zone, s) THEN ShiftHours(t, StdOffset(zone) + 1) ELSE s

\* UTC(t): the UTC instant of the local reading t
UTCTime(zone, local) == ShiftHours(local, 0 - OffsetAt(zone, local))

\* new Date(period + '-01'): a date-only ISO string is read as UTC midnight
ParseDate(p) == [y |-> YearOf(p), m |-> MonthOf(p), d |-> 1, h |-> 0]

GetFullYear(zone, t) == LocalTime(zone, t).y
GetMonth(zone, t) == LocalTime(zone, t).m - 1

\* Date.prototype.setMonth(month): local fields, month replaced, day carried
SetMonth(zone, t, month0) ==
    LET l == LocalTime(zone, t) IN UTCTime(zone, MakeDate(l.y, month0, l.d, l.h))

\* Date.prototype.setFullYear(year): local fields, year replaced, day carried
SetFullYear(zone, t, year) ==
    LET l == LocalTime(zone, t) IN UTCTime(zone, MakeDate(year, l.m - 1, l.d, l.h))

\* toISOString().slice(0, 7): the UTC year and month
IsoMonth(t) == Period(t.y, t.m)

----------------------------------------------------------------------------
(* Numbers *)

\* the rational n/d, d > 0
Rat(n, d) == <<n, d>>

\* Math.round: the nearest integer, a tie going up
Round(q) == (2 * q[1] + q[2]) \div (2 * q[2])

\* Math.max(0, q)
Max0(q) == IF q[1] < 0 THEN Rat(0, 1) ELSE q

RECURSIVE SumSeq(_)
SumSeq(s) == IF s = <<>> THEN 0 ELSE Head(s) + SumSeq(Tail(s))

\* Array.prototype.map over a sequence of records
Amounts(s) == [i \in 1..Len(s) |-> s[i].amount]

\* the model integer that stands for 2^53
Two53 == 2^20

\* x = Hi(x) * Two53 + Lo(x), with Lo(x) the small part
Hi(x) == (x + (Two53 \div 2)) \div Two53
Lo(x) == x - Hi(x) * Two53

RECURSIVE Log2(_)
Log2(h) == IF h <= 1 THEN 0 ELSE 1 + Log2(h \div 2)

\* the distance between neighbouring doubles at h * 2^53 + n, h >= 1:
\* 2^(e - 52) in the binade [2^e, 2^(e+1))
Spacing(h, n) ==
    IF n < 0 /\ 2^Log2(h) = h THEN h ELSE 2 * 2^Log2(h)

\* the multiple of s nearest to n, a tie going to the even multiple
RoundEven(n, s) ==
    LET q == n \div s
        r == n % s
    IN IF 2 * r < s THEN q * s
       ELSE IF 2 * r > s THEN (q + 1) * s
       ELSE IF q % 2 = 0 THEN q * s ELSE (q + 1) * s

\* the double nearest to a number of magnitude 2^53 or more; h * 2^53 is an
\* even multiple of the spacing, so the small part alone is rounded
FlPositive(x) == Hi(x) * Two53 + RoundEven(Lo(x), Spacing(Hi(x), Lo(x)))

\* round-to-nearest-even of binary64: integers below 2^53 are exact
Fl(x) ==
    IF Hi(x) = 0 THEN x
    ELSE IF Hi(x) > 0 THEN FlPositive(x)
    ELSE 0 - FlPositive(0 - x)

\* a + b and a - b of two JavaScript numbers
Plus(a, b) == Fl(a + b)
Minus(a, b) == Fl(a - b)

\* s.reduce((sum, x) => sum + x, 0)
RECURSIVE ReduceFrom(_, _)
ReduceFrom(sum, s) == IF s = <<>> THEN sum ELSE ReduceFrom(Plus(sum, Head(s)), Tail(s))

Reduce(s) == ReduceFrom(0, s)

----------------------------------------------------------------------------
(* forecastingService: calculateTrend *)

\* the regression of calculateTrend with the projection index shifted and
\* the clamp optional
TrendLine(history, periodsToForecast, shift, clamp) ==
    LET n == Len(history)
        sumX  == SumSeq([i \in 1..n |-> i - 1])
        sumY  == SumSeq([i \in 1..n |-> history[i].amount])
        sumXY == SumSeq([i \in 1..n |-> (i - 1) * history[i].amount])
        sumXX == SumSeq([i \in 1..n |-> (i - 1) * (i - 1)])
        slopeN == n * sumXY - sumX * sumY
        slopeD == n * sumXX - sumX * sumX
    IN [i \in 1..periodsToForecast |->
          LET x == n + (i - 1) + shift
              y == Rat(slopeN * x * n + (sumY * slopeD - slopeN * sumX), slopeD * n)
          IN IF clamp THEN Max0(y) ELSE y]

\* calculateTrend without Math.max(0, ...)
calculateTrend_NoClamp(history, periodsToForecast) ==
    IF Len(history) < 2
    THEN [i \in 1..periodsToForecast |->
            Rat(IF Len(history) = 0 THEN 0 ELSE history[1].amount, 1)]
    ELSE TrendLine(history, periodsToForecast, 0, FALSE)

\* calculateTrend projecting from x = n + 1 instead of x = n
calculateTrend_OffByOne(history, periodsToForecast) ==
    IF Len(history) < 2
    THEN [i \in 1..periodsToForecast |->
            Rat(IF Len(history) = 0 THEN 0 ELSE history[1].amount, 1)]
    ELSE TrendLine(history, periodsToForecast, 1, TRUE)

\* calculateTrend filling a short history's projection with 0
calculateTrend_ZeroFill(history, periodsToForecast) ==
    IF Len(history) < 2
    THEN [i \in 1..periodsToForecast |-> Rat(0, 1)]
    ELSE TrendLine(history, periodsToForecast, 0, TRUE)

calculateTrend(history, periodsToForecast) ==
    IF Len(history) < 2
    THEN [i \in 1..periodsToForecast |->
            Rat(IF Len(history) = 0 THEN 0 ELSE history[1].amount, 1)]
    ELSE
      LET n == Len(history)
          sumX  == SumSeq([i \in 1..n |-> i - 1])
          sumY  == SumSeq([i \in 1..n |-> history[i].amount])
          sumXY == SumSeq([i \in 1..n |-> (i - 1) * history[i].amount])
          sumXX == SumSeq([i \in 1..n |-> (i - 1) * (i - 1)])
          \* slope = slopeN / slopeD, intercept = (sumY - slope * sumX) / n
          slopeN == n * sumXY - sumX * sumY
          slopeD == n * sumXX - sumX * sumX
      IN [i \in 1..periodsToForecast |->
            LET x == n + (i - 1)
            IN Max0(Rat(slopeN * x * n + (sumY * slopeD - slopeN * sumX), slopeD * n))]

----------------------------------------------------------------------------
(* forecastingService: generateForecast *)

\* Array.prototype.sort with a.period.localeCompare(b.period): stable
RECURSIVE InsertByPeriod(_, _)
InsertByPeriod(r, sorted) ==
    IF sorted = <<>> THEN <<r>>
    ELSE IF r.period < Head(sorted).period THEN <<r>> \o sorted
    ELSE <<Head(sorted)>> \o InsertByPeriod(r, Tail(sorted))

RECURSIVE SortByPeriod(_)
SortByPeriod(s) ==
    IF s = <<>> THEN <<>>
    ELSE InsertByPeriod(s[Len(s)], SortByPeriod(SubSeq(s, 1, Len(s) - 1)))

\* Array.prototype.find: the first element with the period, if any
FindPeriod(s, p) ==
    LET hits == SelectSeq(s, LAMBDA r : r.period = p)
    IN IF hits = <<>> THEN <<>> ELSE <<Head(hits)>>

\* the history filter without its product-line test
InHistory_AnyProductLine(a, r) ==
    /\ r.type = ACTUAL
    /\ r.accountCode = a.accountCode
    /\ (~Truthy(a.costCenterCode) \/ r.costCenterCode = a.costCenterCode)

\* the history filter of generateForecast
InHistory(a, r) ==
    /\ r.type = ACTUAL
    /\ r.accountCode = a.accountCode
    /\ (~Truthy(a.productLineCode) \/ r.productLineCode = a.productLineCode)
    /\ (~Truthy(a.costCenterCode) \/ r.costCenterCode = a.costCenterCode)

History(a, d) == SortByPeriod(SelectSeq(d.records, LAMBDA r : InHistory(a, r)))

MonthCount(zone, startDate, endDate) ==
    LET start == ParseDate(startDate)
        end == ParseDate(endDate)
    IN (GetFullYear(zone, end) - GetFullYear(zone, start)) * 12
         + (GetMonth(zone, end) - GetMonth(zone, start)) + 1

\* const d = new Date(start); d.setMonth(start.getMonth() + i)
MonthDate(zone, start, i) == SetMonth(zone, start, GetMonth(zone, start) + i)

\* r.accountCode.startsWith('REV_')
IsRevenueCode(code) == code \in {"REV_SUB", "REV_SERV", "REV_HW"}

TotalRevenue(d, period) ==
    SumSeq(Amounts(SelectSeq(d.records, LAMBDA r :
        r.period = period /\ r.type = BUDGET /\ IsRevenueCode(r.accountCode))))

ManualValue(params, period) ==
    IF "manualValues" \in DOMAIN params /\ period \in DOMAIN params.manualValues
    THEN params.manualValues[period] ELSE 0

\* a default branch that fills with the last history amount
DefaultAmounts_CarryForward(history, monthCount) ==
    [k \in 1..monthCount |->
        Rat(IF history = <<>> THEN 0 ELSE history[Len(history)].amount, 1)]

\* default: Array(monthCount).fill(0)
DefaultAmounts(history, monthCount) == [k \in 1..monthCount |-> Rat(0, 1)]

ForecastedAmounts(zone, a, d, startDate, monthCount) ==
    LET start == ParseDate(startDate)
        history == History(a, d)
    IN CASE a.method = "Trend" -> calculateTrend(history, monthCount)
         [] a.method = "GrowthYearOverYear" ->
              [k \in 1..monthCount |->
                 LET currentMonthDate == MonthDate(zone, start, k - 1)
                     lastYearDate == SetFullYear(zone, currentMonthDate,
                                        GetFullYear(zone, currentMonthDate) - 1)
                     lastYearRecord == FindPeriod(history, IsoMonth(lastYearDate))
                     baseAmount == IF lastYearRecord # <<>> THEN lastYearRecord[1].amount
                                   ELSE OrZero(a.params, "fallbackValue")
                 IN Rat(baseAmount * (100 + OrZero(a.params, "growthRate")), 100)]
         [] a.method = "Manual" ->
              [k \in 1..monthCount |->
                 Rat(ManualValue(a.params, IsoMonth(MonthDate(zone, start, k - 1))), 1)]
         [] a.method = "PercentOfRevenue" ->
              [k \in 1..monthCount |->
                 Rat(TotalRevenue(d, IsoMonth(MonthDate(zone, start, k - 1)))
                        * OrZero(a.params, "percentOfRevenue"), 100)]
         [] OTHER -> DefaultAmounts(history, monthCount)

\* firstId: the ids crypto.randomUUID() returns are firstId + 1, firstId + 2, ...
generateForecast(zone, a, d, startDate, endDate, firstId) ==
    LET monthCount == MonthCount(zone, startDate, endDate) IN
    IF monthCount <= 0 THEN <<>>
    ELSE
      LET amounts == ForecastedAmounts(zone, a, d, startDate, monthCount)
      IN [idx \in 1..monthCount |->
            [id |-> firstId + idx,
             planId |-> a.planId,
             period |-> IsoMonth(MonthDate(zone, ParseDate(startDate), idx - 1)),
             type |-> BUDGET,
             accountCode |-> a.accountCode,
             productLineCode |-> OrEmpty(a.productLineCode),
             costCenterCode |-> OrEmpty(a.costCenterCode),
             amount |-> Round(amounts[idx])]]

----------------------------------------------------------------------------
(* financialModel: calculatePnL *)

\* accounts.find(a => a.code === code)?.category
\* a look-up that files an unknown code under OpEx
getCategory_UnknownIsOpEx(accounts, code) ==
    LET hits == SelectSeq(accounts, LAMBDA a : a.code = code)
    IN IF hits = <<>> THEN "OpEx" ELSE Head(hits).category

getCategory(accounts, code) ==
    LET hits == SelectSeq(accounts, LAMBDA a : a.code = code)
    IN IF hits = <<>> THEN Undefined ELSE Head(hits).category

sumByCat(records, accounts, type, cat) ==
    Reduce(Amounts(SelectSeq(records, LAMBDA r :
        r.type = type /\ getCategory(accounts, r.accountCode) = cat)))

\* the roll-up with depreciation left out of EBIT
RollUp_EbitBeforeDepreciation(revenue, cogs, opex, dep, otherIncome, taxes, cfItems) ==
    LET grossProfit == Minus(revenue, cogs)
        totalOpEx == Plus(opex, dep)
        ebit == Plus(Minus(grossProfit, opex), otherIncome)
        ebitda == Plus(ebit, dep)
        netIncome == Minus(ebit, taxes)
        fcf == Minus(Plus(netIncome, dep), cfItems)
    IN [revenue |-> revenue, cogs |-> cogs, grossProfit |-> grossProfit,
        opex |-> opex, dep |-> dep, totalOpEx |-> totalOpEx, ebit |-> ebit,
        ebitda |-> ebitda, otherIncome |-> otherIncome, taxes |-> taxes,
        netIncome |-> netIncome, fcf |-> fcf, cfItems |-> cfItems]

\* the roll-up lines from the seven category sums
RollUp(revenue, cogs, opex, dep, otherIncome, taxes, cfItems) ==
    LET grossProfit == Minus(revenue, cogs)
        totalOpEx == Plus(opex, dep)
        ebit == Plus(Minus(grossProfit, totalOpEx), otherIncome)
        ebitda == Plus(ebit, dep)
        netIncome == Minus(ebit, taxes)
        fcf == Minus(Plus(netIncome, dep), cfItems)
    IN [revenue |-> revenue, cogs |-> cogs, grossProfit |-> grossProfit,
        opex |-> opex, dep |-> dep, totalOpEx |-> totalOpEx, ebit |-> ebit,
        ebitda |-> ebitda, otherIncome |-> otherIncome, taxes |-> taxes,
        netIncome |-> netIncome, fcf |-> fcf, cfItems |-> cfItems]

calculatePnL(records, accounts, type) ==
    RollUp(sumByCat(records, accounts, type, "Revenue"),
           sumByCat(records, accounts, type, "COGS"),
           sumByCat(records, accounts, type, "OpEx"),
           sumByCat(records, accounts, type, "Depreciation"),
           sumByCat(records, accounts, type, "Other Income"),
           sumByCat(records, accounts, type, "Taxes"),
           sumByCat(records, accounts, type, "Cash Flow Items"))

----------------------------------------------------------------------------
(* forecastingService: applyRisksAndOps *)

\* the empty string in a field that holds a period
NoPeriod == Period(0, 0)

\* while (m > 12) { m -= 12; y++ }, then `${y}-${String(m).padStart(2, '0')}`
RECURSIVE CarryMonth(_, _)
CarryMonth(y, m) == IF m > 12 THEN CarryMonth(y + 1, m - 12) ELSE Period(y, m)

\* item.durationMonths || 1
DurationOf(item) == IF item.durationMonths = 0 THEN 1 ELSE item.durationMonths

\* item.startDate || new Date().toISOString().slice(0, 7)
StartOf(item, clock) == IF item.startDate = NoPeriod THEN clock ELSE item.startDate

\* estimatedImpact / (durationMonths || 1), negated for a Risk; the quotient
\* is exact on the impacts the model draws
FinalMonthlyAmount(item) ==
    (item.estimatedImpact \div DurationOf(item)) * (IF item.type = "Risk" THEN 0 - 1 ELSE 1)

\* the predicate of currentRecords.findIndex
SameTarget(r, item, planId, period) ==
    /\ r.period = period
    /\ r.planId = planId
    /\ r.accountCode = item.impactAccountCode
    /\ r.costCenterCode = OrEmpty(item.impactCostCenterCode)
    /\ r.productLineCode = OrEmpty(item.impactProductLineCode)

\* findIndex: the first index that matches, 0 for none
FindIndex(records, item, planId, period) ==
    LET hits == {k \in 1..Len(records) : SameTarget(records[k], item, planId, period)}
    IN IF hits = {} THEN 0 ELSE CHOOSE k \in hits : \A j \in hits : k <= j

\* one month of one item without the look-up: a record is always pushed
ApplyMonth_AlwaysPush(records, item, planId, clock, i, newId) ==
    IF ~Truthy(item.impactAccountCode) THEN records
    ELSE Append(records,
            Rec(newId, planId,
                CarryMonth(YearOf(StartOf(item, clock)), MonthOf(StartOf(item, clock)) + i),
                BUDGET, item.impactAccountCode,
                OrEmpty(item.impactCostCenterCode), OrEmpty(item.impactProductLineCode),
                FinalMonthlyAmount(item)))

\* the body of the month loop
ApplyMonth(records, item, planId, clock, i, newId) ==
    LET start == StartOf(item, clock)
        period == CarryMonth(YearOf(start), MonthOf(start) + i)
        existingIndex == FindIndex(records, item, planId, period)
    IN IF ~Truthy(item.impactAccountCode) THEN records
       ELSE IF existingIndex # 0
       THEN [records EXCEPT ![existingIndex].amount = @ + FinalMonthlyAmount(item)]
       ELSE Append(records,
               Rec(newId, planId, period, BUDGET, item.impactAccountCode,
                   OrEmpty(item.impactCostCenterCode), OrEmpty(item.impactProductLineCode),
                   FinalMonthlyAmount(item)))

\* for (let i = 0; i < (item.durationMonths || 1); i++); each iteration is
\* evaluated (Len) before the next one starts
RECURSIVE ApplyMonths(_, _, _, _, _, _)
ApplyMonths(records, item, planId, clock, i, firstId) ==
    IF i >= DurationOf(item) THEN records
    ELSE LET next == ApplyMonth(records, item, planId, clock, i, firstId + Len(records) + 1)
         IN IF Len(next) >= Len(records)
            THEN ApplyMonths(next, item, planId, clock, i + 1, firstId)
            ELSE next

\* activeItems.forEach
RECURSIVE ApplyItems(_, _, _, _, _)
ApplyItems(records, items, planId, clock, firstId) ==
    IF items = <<>> THEN records
    ELSE LET next == ApplyMonths(records, Head(items), planId, clock, 0, firstId)
         IN IF Len(next) >= Len(records)
            THEN ApplyItems(next, Tail(items), planId, clock, firstId)
            ELSE next

\* applyRisksAndOps that overlays every entry of the plan, budgeted or not
applyRisksAndOps_IgnoresBudgetFlag(baseRecords, d, planId, clock, firstId) ==
    ApplyItems(baseRecords,
               SelectSeq(d.opportunities, LAMBDA item : item.planId = planId),
               planId, clock, firstId)

\* firstId + Len(records) + 1 is the id crypto.randomUUID() returns next
applyRisksAndOps(baseRecords, d, planId, clock, firstId) ==
    LET activeItems == SelectSeq(d.opportunities, LAMBDA item :
                           item.includedInBudget /\ item.planId = planId)
    IN ApplyItems(baseRecords, activeItems, planId, clock, firstId)

\* the caller's array after one month of one item: currentRecords is a copy
\* ([...baseRecords]) that shares the caller's record objects; a hit stores a
\* new object ({...existing, amount}) in the copy's slot and a miss pushes to
\* the copy, so neither writes to the caller's array or to one of its objects
InputAfterMonth(input, records, item, planId, clock, i) == input

RECURSIVE InputAfterMonths(_, _, _, _, _, _, _)
InputAfterMonths(input, records, item, planId, clock, i, firstId) ==
    IF i >= DurationOf(item) THEN input
    ELSE LET next == ApplyMonth(records, item, planId, clock, i, firstId + Len(records) + 1)
             seen == InputAfterMonth(input, records, item, planId, clock, i)
         IN IF Len(next) >= Len(records) /\ Len(seen) >= 0
            THEN InputAfterMonths(seen, next, item, planId, clock, i + 1, firstId)
            ELSE seen

RECURSIVE InputAfterItems(_, _, _, _, _, _)
InputAfterItems(input, records, items, planId, clock, firstId) ==
    IF items = <<>> THEN input
    ELSE LET next == ApplyMonths(records, Head(items), planId, clock, 0, firstId)
             seen == InputAfterMonths(input, records, Head(items), planId, clock, 0, firstId)
         IN IF Len(next) >= Len(records) /\ Len(seen) >= 0
            THEN InputAfterItems(seen, next, Tail(items), planId, clock, firstId)
            ELSE seen

\* baseRecords as the caller sees it when applyRisksAndOps has returned
InputAfter(baseRecords, d, planId, clock, firstId) ==
    InputAfterItems(baseRecords, baseRecords,
                    SelectSeq(d.opportunities, LAMBDA item :
                        item.includedInBudget /\ item.planId = planId),
                    planId, clock, firstId)

----------------------------------------------------------------------------
(* Bounds of the model *)

MaxRecords == 3       \* records drawn into a store or a history
MaxMonths == 3        \* months of a forecast range beyond its first
MaxItems == 2         \* entries of a risk/opportunity register
MaxDuration == 3      \* durationMonths of an entry, besides a full year

----------------------------------------------------------------------------
(* Values the inputs are drawn from *)

EmptyParams == <<>>

Methods == {"Manual", "Trend", "GrowthYearOverYear", "PercentOfRevenue", "CustomFormula"}

\* the methods a stored assumption can carry: those of ForecastMethodType and
\* a string outside it (the workspace file is parsed without validation)
StoredMethods == Methods \cup {"Seasonal"}

\* the parameter records a method is tried with
ParamsOf(method) ==
    CASE method = "GrowthYearOverYear" ->
            {EmptyParams, [growthRate |-> 10, fallbackValue |-> 7]}
      [] method = "Manual" ->
            {EmptyParams,
             [manualValues |-> (Period(2025, 1) :> 500 @@ Period(2025, 4) :> (0 - 20))]}
      [] method = "PercentOfRevenue" -> {EmptyParams, [percentOfRevenue |-> 30]}
      [] OTHER -> {EmptyParams}

\* injective sequences over S of length at most n
RECURSIVE SeqsUpTo(_, _)
SeqsUpTo(S, n) ==
    IF n = 0 THEN {<<>>}
    ELSE LET shorter == SeqsUpTo(S, n - 1)
         IN shorter \cup {Append(q, x) : q \in shorter, x \in S}

Injective(q) == \A i, j \in 1..Len(q) : i # j => q[i] # q[j]

NoCall == [fn |-> "none"]

EmptyData ==
    [records |-> <<>>, assumptions |-> <<>>, plans |-> <<>>,
     opportunities |-> <<>>, accounts |-> <<>>,
     costCenters |-> <<>>, productLines |-> <<>>]

----------------------------------------------------------------------------
(* Specification of generateForecast: every input, one call *)

\* Actual records of the forecast account, and records the filters must drop
ForecastActuals ==
    {Rec(0, Undefined, Period(2024, 1), ACTUAL, "EXP_MKT", "200", "PL_IOT", 100),
     Rec(0, Undefined, Period(2024, 2), ACTUAL, "EXP_MKT", "200", "PL_IOT", 110),
     Rec(0, Undefined, Period(2024, 3), ACTUAL, "EXP_MKT", "200", "PL_IOT", 120),
     Rec(0, Undefined, Period(2024, 3), ACTUAL, "EXP_MKT", "200", "PL_IOT", 0 - 35)}

ForecastOthers ==
    {Rec(0, Undefined, Period(2024, 4), ACTUAL, "EXP_MKT", "100", "PL_ANL", 40),
     Rec(0, Undefined, Period(2024, 2), ACTUAL, "REV_SUB", "200", "PL_IOT", 900),
     Rec(0, "P1", Period(2025, 1), BUDGET, "REV_SUB", "200", "PL_IOT", 1000),
     Rec(0, "P1", Period(2025, 4), BUDGET, "REV_HW", "200", "PL_IOT", 250),
     Rec(0, "P2", Period(2025, 1), BUDGET, "REV_SUB", "200", "PL_IOT", 400),
     Rec(0, "P1", Period(2024, 2), BUDGET, "EXP_MKT", "200", "PL_IOT", 77),
     Rec(0, "P1", Period(2025, 1), FORECAST, "REV_SUB", "200", "PL_IOT", 5)}

ForecastStores ==
    {h \o o : h \in {q \in SeqsUpTo(ForecastActuals, MaxRecords) : Injective(q)},
              o \in SeqsUpTo(ForecastOthers, 1)}

ForecastDims == {<<Undefined, Undefined>>, <<"PL_IOT", Undefined>>, <<Undefined, "200">>}

ForecastStarts == {Period(2025, 1), Period(2025, 3)}

InitForecast ==
    /\ tz \in TimeZones
    /\ data \in {[EmptyData EXCEPT !.records = rs] : rs \in ForecastStores}
    /\ activePlanId = Undefined
    /\ selectedAccountCode = Undefined
    /\ selectedProductLineCode = "All"
    /\ selectedCostCenterCode = "All"
    /\ draftMethod = "Trend"
    /\ draftParams = EmptyParams
    /\ uuid = 0
    /\ now = Period(2025, 6)
    /\ call = NoCall

CallGenerateForecast ==
    /\ call = NoCall
    /\ \E method \in StoredMethods, dims \in ForecastDims, startDate \in ForecastStarts :
       \E params \in ParamsOf(method), endDate \in (startDate - 1)..(startDate + MaxMonths) :
          LET a == Assumption("a1", "P1", "EXP_MKT", dims[1], dims[2], method, params)
              result == generateForecast(tz, a, data, startDate, endDate, uuid)
          IN /\ call' = [fn |-> "generateForecast", assumption |-> a,
                         startDate |-> startDate, endDate |-> endDate,
                         result |-> result]
             /\ uuid' = uuid + Len(result)
    /\ UNCHANGED <<tz, data, ui, now>>

NextForecast == CallGenerateForecast

SpecForecast == InitForecast /\ [][NextForecast]_vars

----------------------------------------------------------------------------
(* Claims about generateForecast, under SpecForecast *)

IsForecastCall(method) ==
    call.fn = "generateForecast" /\ call.assumption.method = method

CallHistory == History(call.assumption, data)

\* inclusive number of calendar months of the call's range
CallMonths ==
    IF call.endDate < call.startDate THEN 0 ELSE call.endDate - call.startDate + 1

ResultAmounts == Amounts(call.result)

\* C2: generateForecast returns nothing when rangeEnd is before rangeStart and
\* otherwise one record per calendar month of rangeStart..rangeEnd, the i-th
\* carrying the period i months after rangeStart, in every host time zone.
C2_PeriodsCoverRange ==
    call.fn = "generateForecast" =>
        /\ Len(call.result) = CallMonths
        /\ \A i \in 1..Len(call.result) :
              call.result[i].period = call.startDate + (i - 1)

\* C5 as stated: under Trend every returned amount is >= 0, for every history.
C5_TrendNeverNegative ==
    IsForecastCall("Trend") => \A i \in 1..Len(call.result) : ResultAmounts[i] >= 0

\* C5 as amended: under Trend every returned amount is >= 0 whenever the
\* history has at least two points, is empty, or its single amount is >= 0.
C5_TrendClampedFromTwoPoints ==
    (/\ IsForecastCall("Trend")
     /\ (Len(CallHistory) # 1 \/ CallHistory[1].amount >= 0))
    => \A i \in 1..Len(call.result) : ResultAmounts[i] >= 0

\* a falling history of two or more points whose projection was clamped to 0
C5_Witness ==
    /\ IsForecastCall("Trend")
    /\ Len(CallHistory) >= 2
    /\ CallHistory[1].amount > CallHistory[Len(CallHistory)].amount
    /\ Len(call.result) >= 2
    /\ \A i \in 1..Len(call.result) : ResultAmounts[i] = 0

IsLinear(h) ==
    \A k \in 1..Len(h) :
        h[k].amount = h[1].amount + (h[2].amount - h[1].amount) * (k - 1)

\* C6: Trend on n >= 2 amounts lying on the line y = a + b*x, x = 0..n-1,
\* projects max(0, a + b*(n+i)) for forecast month i (0-based).
C6_TrendOnALine ==
    (IsForecastCall("Trend") /\ Len(CallHistory) >= 2 /\ IsLinear(CallHistory))
    => \A i \in 1..Len(call.result) :
          LET a == CallHistory[1].amount
              b == CallHistory[2].amount - CallHistory[1].amount
              y == a + b * (Len(CallHistory) + (i - 1))
          IN ResultAmounts[i] = (IF y < 0 THEN 0 ELSE y)

\* history 100, 110, 120 and two forecast months give 130, 140
C6_Witness ==
    /\ IsForecastCall("Trend")
    /\ Amounts(CallHistory) = <<100, 110, 120>>
    /\ ResultAmounts = <<130, 140>>

\* C7: Trend with fewer than 2 history points gives every one of the
\* monthCount forecast months the single known amount, or 0 without history.
C7_TrendShortHistoryIsFlat ==
    (IsForecastCall("Trend") /\ Len(CallHistory) < 2)
    => /\ Len(call.result) = CallMonths
       /\ \A i \in 1..Len(call.result) :
             ResultAmounts[i] =
                (IF Len(CallHistory) = 1 THEN CallHistory[1].amount ELSE 0)

\* a single known amount repeated over several months
C7_Witness ==
    /\ IsForecastCall("Trend")
    /\ Len(CallHistory) = 1
    /\ Len(call.result) >= 2
    /\ \A i \in 1..Len(call.result) : ResultAmounts[i] = CallHistory[1].amount
    /\ CallHistory[1].amount # 0

\* the amount of the first history record of a period, if there is one
HistoryAmount(h, p, fallback) ==
    IF \E k \in 1..Len(h) : h[k].period = p
    THEN h[CHOOSE k \in 1..Len(h) :
              h[k].period = p /\ \A j \in 1..(k - 1) : h[j].period # p].amount
    ELSE fallback

\* C8: GrowthYearOverYear gives each target month round(base * (1 + growthRate)),
\* base the amount of the history record of the same calendar month one year
\* earlier, or fallbackValue (default 0); a missing growthRate counts as 0.
C8_GrowthOverPriorYear ==
    IsForecastCall("GrowthYearOverYear") =>
        /\ Len(call.result) = CallMonths
        /\ \A i \in 1..Len(call.result) :
              LET target == call.startDate + (i - 1)
                  base == HistoryAmount(CallHistory, target - 12,
                                        OrZero(call.assumption.params, "fallbackValue"))
              IN ResultAmounts[i] =
                    Round(Rat(base * (100 + OrZero(call.assumption.params, "growthRate")), 100))

\* C9: PercentOfRevenue gives each target month p round(percentOfRevenue * the
\* sum of the Budget records of period p whose accountCode begins 'REV_'),
\* hence 0 where no such record is in the store when the forecast is generated.
C9_PercentOfStoredRevenue ==
    IsForecastCall("PercentOfRevenue") =>
        /\ Len(call.result) = CallMonths
        /\ \A i \in 1..Len(call.result) :
              LET target == call.startDate + (i - 1)
                  revenue == SumSeq(Amounts(SelectSeq(data.records, LAMBDA r :
                                 /\ r.period = target
                                 /\ r.type = BUDGET
                                 /\ r.accountCode \in {"REV_SUB", "REV_SERV", "REV_HW"})))
              IN ResultAmounts[i] =
                    Round(Rat(revenue * OrZero(call.assumption.params, "percentOfRevenue"), 100))

\* the records the claim lets into the history of assumption a
C10_Relevant(a, r) ==
    /\ r.type = ACTUAL
    /\ r.accountCode = a.accountCode
    /\ (a.productLineCode \notin {Undefined, ""} => r.productLineCode = a.productLineCode)
    /\ (a.costCenterCode \notin {Undefined, ""} => r.costCenterCode = a.costCenterCode)

Count(q, x) == Cardinality({k \in 1..Len(q) : q[k] = x})

\* C10: the history is exactly the Actual records of the assumption's account
\* (and of its product line / cost center when it names one), ascending by
\* period; Trend and GrowthYearOverYear results do not depend on other records.
C10_HistoryIsTheScopedActuals ==
    (IsForecastCall("Trend") \/ IsForecastCall("GrowthYearOverYear")) =>
        LET a == call.assumption
            relevant == SelectSeq(data.records, LAMBDA r : C10_Relevant(a, r))
        IN /\ Len(CallHistory) = Len(relevant)
           /\ \A k \in 1..Len(relevant) :
                 Count(CallHistory, relevant[k]) = Count(relevant, relevant[k])
           /\ \A j, k \in 1..Len(CallHistory) :
                 j < k => CallHistory[j].period <= CallHistory[k].period
           /\ Amounts(call.result) =
                 Amounts(generateForecast(tz, a, [data EXCEPT !.records = relevant],
                                          call.startDate, call.endDate, 0))

\* a product-line forecast over a store that also holds another line's Actual
C10_Witness ==
    /\ IsForecastCall("Trend")
    /\ call.assumption.productLineCode = "PL_IOT"
    /\ Len(CallHistory) >= 2
    /\ Len(call.result) >= 1
    /\ \E k \in 1..Len(data.records) :
          /\ data.records[k].type = ACTUAL
          /\ data.records[k].accountCode = "EXP_MKT"
          /\ data.records[k].productLineCode = "PL_ANL"

----------------------------------------------------------------------------
(* Specification of calculatePnL: every input, one call *)

Account(code, category) == [code |-> code, category |-> category]

\* the chart of accounts of the data factory, one account per category
Registry ==
    <<Account("REV_SUB", "Revenue"), Account("COGS_HOST", "COGS"),
      Account("EXP_MKT", "OpEx"), Account("EXP_DEP", "Depreciation"),
      Account("INC_OTHER", "Other Income"), Account("EXP_TAX", "Taxes"),
      Account("CF_CAPEX", "Cash Flow Items")>>

\* the registries tried: the chart, the chart with the depreciation account
\* removed, and the chart with an account that has no category and a code
\* entered twice
Registries ==
    {Registry,
     SelectSeq(Registry, LAMBDA a : a.code # "EXP_DEP"),
     <<Account("EXP_MKT", Undefined)>> \o Registry \o <<Account("REV_SUB", "Taxes")>>}

PnLRecords ==
    <<Rec(0, "P1", Period(2025, 1), BUDGET, "REV_SUB", "200", "PL_IOT", 1000),
      Rec(0, "P1", Period(2025, 1), BUDGET, "COGS_HOST", "GEN_CC", "PL_IOT", 300),
      Rec(0, "P1", Period(2025, 2), BUDGET, "EXP_MKT", "200", "GEN_PL", 200),
      Rec(0, "P1", Period(2025, 2), BUDGET, "EXP_DEP", "100", "GEN_PL", 50),
      Rec(0, "P1", Period(2025, 1), BUDGET, "INC_OTHER", "GEN_CC", "GEN_PL", 0 - 20),
      Rec(0, "P1", Period(2025, 1), BUDGET, "EXP_TAX", "GEN_CC", "GEN_PL", 70),
      Rec(0, "P1", Period(2025, 3), BUDGET, "CF_CAPEX", "GEN_CC", "GEN_PL", 90),
      Rec(0, "P1", Period(2025, 3), BUDGET, "EXP_OLD", "GEN_CC", "GEN_PL", 5),
      Rec(0, Undefined, Period(2025, 1), ACTUAL, "REV_SUB", "200", "PL_IOT", 800),
      Rec(0, Undefined, Period(2025, 1), ACTUAL, "EXP_DEP", "100", "GEN_PL", 40)>>

\* the sub-sequence of q at the indices in keep
Pick(q, keep) == SelectSeq([i \in 1..Len(q) |-> <<i, q[i]>>], LAMBDA e : e[1] \in keep)

SubSeqs(q) == {[i \in 1..Len(Pick(q, keep)) |-> Pick(q, keep)[i][2]] :
                  keep \in SUBSET (1..Len(q))}

InitPnL ==
    /\ tz \in {"UTC"}
    /\ data \in {[EmptyData EXCEPT !.records = rs, !.accounts = reg] :
                    rs \in SubSeqs(PnLRecords), reg \in Registries}
    /\ activePlanId = Undefined
    /\ selectedAccountCode = Undefined
    /\ selectedProductLineCode = "All"
    /\ selectedCostCenterCode = "All"
    /\ draftMethod = "Trend"
    /\ draftParams = EmptyParams
    /\ uuid = 0
    /\ now = Period(2025, 6)
    /\ call = NoCall

CallCalculatePnL ==
    /\ call = NoCall
    /\ \E type \in {ACTUAL, BUDGET, FORECAST} :
          call' = [fn |-> "calculatePnL", type |-> type,
                   result |-> calculatePnL(data.records, data.accounts, type)]
    /\ UNCHANGED <<tz, data, ui, uuid, now>>

NextPnL == CallCalculatePnL

SpecPnL == InitPnL /\ [][NextPnL]_vars

\* C4: the output of calculatePnL satisfies every roll-up identity exactly:
\* grossProfit = revenue - cogs, totalOpEx = opex + dep,
\* ebit = grossProfit - totalOpEx + otherIncome, ebitda = ebit + dep,
\* netIncome = ebit - taxes, fcf = netIncome + dep - cfItems.
C4_RollUpIdentities ==
    call.fn = "calculatePnL" =>
        LET o == call.result
        IN /\ o.grossProfit = o.revenue - o.cogs
           /\ o.totalOpEx = o.opex + o.dep
           /\ o.ebit = o.grossProfit - o.totalOpEx + o.otherIncome
           /\ o.grossProfit + (0 - o.totalOpEx) + o.otherIncome = o.ebit
           /\ o.ebitda = o.ebit + o.dep
           /\ o.netIncome = o.ebit - o.taxes
           /\ o.fcf = o.netIncome + o.dep - o.cfItems

\* a roll-up in which every category has a non-zero sum
C4_Witness ==
    /\ call.fn = "calculatePnL"
    /\ call.type = BUDGET
    /\ \A f \in {"revenue", "cogs", "opex", "dep", "otherIncome", "taxes", "cfItems"} :
          call.result[f] # 0
    /\ call.result.ebit = 1000 - 300 - 200 - 50 - 20

----------------------------------------------------------------------------
(* Specification of applyRisksAndOps: every input, one call *)

Item(type, estimatedImpact, includedInBudget, planId, startDate, durationMonths, impactAccountCode, impactProductLineCode, impactCostCenterCode) ==
    [type |-> type, estimatedImpact |-> estimatedImpact,
     includedInBudget |-> includedInBudget, planId |-> planId,
     startDate |-> startDate, durationMonths |-> durationMonths,
     impactAccountCode |-> impactAccountCode,
     impactProductLineCode |-> impactProductLineCode,
     impactCostCenterCode |-> impactCostCenterCode]

\* register entries: a year of 1200, short entries across the year end, and
\* entries on a dimension, left out of the budget, of another plan, without
\* an account, without a start date
OverlayItems ==
    {Item(t, 1200, TRUE, "P1", Period(2025, 1), 12, "EXP_MKT", Undefined, Undefined) :
        t \in {"Risk", "Opportunity"}}
    \cup
    {Item("Opportunity", 600, TRUE, "P1", Period(2025, 11), n, "EXP_MKT", Undefined, Undefined) :
        n \in 0..MaxDuration}
    \cup
    {Item("Risk", 600, TRUE, "P1", Period(2025, 1), 2, "EXP_MKT", Undefined, "200"),
     Item("Opportunity", 600, TRUE, "P1", Period(2025, 1), 1, "EXP_MKT", "PL_IOT", Undefined),
     Item("Opportunity", 600, FALSE, "P1", Period(2025, 1), 1, "EXP_MKT", Undefined, Undefined),
     Item("Opportunity", 600, TRUE, "P2", Period(2025, 1), 1, "EXP_MKT", Undefined, Undefined),
     Item("Opportunity", 600, TRUE, "P1", Period(2025, 1), 1, Undefined, Undefined, Undefined),
     Item("Risk", 600, TRUE, "P1", NoPeriod, 1, "EXP_MKT", Undefined, Undefined)}

OverlayBase ==
    {Rec(0, "P1", Period(2025, 1), BUDGET, "EXP_MKT", "", "", 500),
     Rec(0, "P1", Period(2025, 1), BUDGET, "EXP_MKT", "", "", 20),
     Rec(0, "P1", Period(2025, 12), FORECAST, "EXP_MKT", "", "", 0 - 40),
     Rec(0, "P1", Period(2025, 2), BUDGET, "EXP_MKT", "200", "", 300),
     Rec(0, "P2", Period(2025, 1), BUDGET, "EXP_MKT", "", "", 7),
     Rec(0, Undefined, Period(2025, 1), ACTUAL, "EXP_MKT", "", "", 9)}

InitOverlay ==
    /\ tz \in {"UTC"}
    /\ data \in {[EmptyData EXCEPT !.records = rs, !.opportunities = ops] :
                    rs \in {q \in SeqsUpTo(OverlayBase, 2) : Injective(q)},
                    ops \in SeqsUpTo(OverlayItems, MaxItems)}
    /\ activePlanId = Undefined
    /\ selectedAccountCode = Undefined
    /\ selectedProductLineCode = "All"
    /\ selectedCostCenterCode = "All"
    /\ draftMethod = "Trend"
    /\ draftParams = EmptyParams
    /\ uuid = 0
    /\ now \in {Period(2025, 1), Period(2025, 6)}
    /\ call = NoCall

CallApplyRisksAndOps ==
    /\ call = NoCall
    /\ \E planId \in {"P1", "P2"} :
          LET result == applyRisksAndOps(data.records, data, planId, now, uuid)
          IN /\ call' = [fn |-> "applyRisksAndOps", baseRecords |-> data.records,
                         planId |-> planId, firstId |-> uuid, result |-> result]
             /\ uuid' = uuid + (Len(result) - Len(data.records))
             /\ data' = [data EXCEPT
                            !.records = InputAfter(data.records, data, planId, now, uuid)]
    /\ UNCHANGED <<tz, ui, now>>

NextOverlay == CallApplyRisksAndOps

SpecOverlay == InitOverlay /\ [][NextOverlay]_vars

----------------------------------------------------------------------------
(* Claims about applyRisksAndOps *)

IsOverlayCall == call # NoCall /\ call.fn = "applyRisksAndOps"

\* the register entries the claim speaks of, by position in the register
Selected(e) ==
    /\ data.opportunities[e].includedInBudget
    /\ data.opportunities[e].planId = call.planId
    /\ data.opportunities[e].impactAccountCode \notin {Undefined, ""}

\* an entry with a start month and a duration of at least one month
WellFormed(e) ==
    /\ data.opportunities[e].startDate # NoPeriod
    /\ data.opportunities[e].durationMonths >= 1

KeyOf(r) ==
    [period |-> r.period, planId |-> r.planId, accountCode |-> r.accountCode,
     costCenterCode |-> r.costCenterCode, productLineCode |-> r.productLineCode]

\* the key month i of entry e is aimed at
TargetKey(e, i) ==
    LET item == data.opportunities[e]
    IN [period |-> item.startDate + i, planId |-> call.planId,
        accountCode |-> item.impactAccountCode,
        costCenterCode |-> IF item.impactCostCenterCode = Undefined THEN ""
                           ELSE item.impactCostCenterCode,
        productLineCode |-> IF item.impactProductLineCode = Undefined THEN ""
                            ELSE item.impactProductLineCode]

TargetKeys ==
    UNION {{TargetKey(e, i) : i \in 0..(data.opportunities[e].durationMonths - 1)} :
              e \in {x \in 1..Len(data.opportunities) : Selected(x) /\ WellFormed(x)}}

\* the positions of the records of a key, and the first of them
Holders(records, key) == {k \in 1..Len(records) : KeyOf(records[k]) = key}

FirstHolder(records, key) ==
    CHOOSE k \in Holders(records, key) : \A j \in Holders(records, key) : k <= j

\* what entry e adds to a key: its monthly share if one of its months is the
\* key's period, signed by its type
ShareOf(e, key) ==
    LET item == data.opportunities[e]
    IN IF /\ Selected(e)
          /\ \E i \in 0..(item.durationMonths - 1) : TargetKey(e, i) = key
       THEN IF item.type = "Risk"
            THEN 0 - (item.estimatedImpact \div item.durationMonths)
            ELSE item.estimatedImpact \div item.durationMonths
       ELSE 0

Shares(key) == SumSeq([e \in 1..Len(data.opportunities) |-> ShareOf(e, key)])

\* C3 (applyRisksAndOps): every month of every entry that is in the budget,
\* of the given plan and has an impact account has exactly one touched record
\* for its key (period = start + i months, plan, account, cost centre or '',
\* product line or ''): the first record of the key in the input, or a Budget
\* record appended behind the input when the input has none; no second record
\* of the key is created; the touched record's amount is the input amount (0
\* when appended) plus impact / duration, negated for a Risk, of every entry
\* aimed at the key; every other record is returned as it was.
C3_ImpactsLandOnOneRecordPerKey ==
    IsOverlayCall =>
        LET base == call.baseRecords
            out == call.result
        IN /\ \A key \in TargetKeys :
                 /\ Holders(out, key) # {}
                 /\ Cardinality(Holders(out, key))
                       = (IF Holders(base, key) = {} THEN 1
                          ELSE Cardinality(Holders(base, key)))
           /\ (\A e \in 1..Len(data.opportunities) : Selected(e) => WellFormed(e)) =>
                 /\ Len(out) = Len(base)
                                  + Cardinality({key \in TargetKeys : Holders(base, key) = {}})
                 /\ \A key \in TargetKeys :
                       LET k == FirstHolder(out, key)
                       IN IF Holders(base, key) = {}
                          THEN /\ k > Len(base)
                               /\ out[k].type = BUDGET
                               /\ out[k].amount = Shares(key)
                          ELSE /\ k = FirstHolder(base, key)
                               /\ out[k] = [base[k] EXCEPT !.amount = @ + Shares(key)]
                 /\ \A k \in 1..Len(base) :
                       (\A key \in TargetKeys :
                           Holders(base, key) # {} => k # FirstHolder(base, key))
                          => out[k] = base[k]

\* an Opportunity of 1200 over twelve months from 2025-01 laid over a budget
\* that holds 500 for 2025-01: 600 on that record and eleven new records of
\* 100 for 2025-02..2025-12
C3_Witness ==
    /\ IsOverlayCall
    /\ call.planId = "P1"
    /\ data.opportunities
          = <<Item("Opportunity", 1200, TRUE, "P1", Period(2025, 1), 12,
                   "EXP_MKT", Undefined, Undefined)>>
    /\ call.baseRecords = <<Rec(0, "P1", Period(2025, 1), BUDGET, "EXP_MKT", "", "", 500)>>
    /\ Len(call.result) = 12
    /\ \A k \in 1..12 :
          /\ call.result[k].period = Period(2025, k)
          /\ call.result[k].amount = (IF k = 1 THEN 600 ELSE 100)

----------------------------------------------------------------------------
(* Forecast view: selection, draft and handleCommitForecast *)

MaxUuid == 13         \* ids drawn so far beyond which no further commit is taken

Plan(id, startDate, endDate) == [id |-> id, startDate |-> startDate, endDate |-> endDate]

\* selectedXCode === 'All' ? undefined : selectedXCode
DimensionOf(selected) == IF selected = "All" THEN Undefined ELSE selected

\* data.plans.find(p => p.id === activePlanId)
ActivePlan(d, planId) == SelectSeq(d.plans, LAMBDA p : p.id = planId)

\* a look-up that never finds the stored assumption
ExistingAssumption_NeverFound(d, planId, accountCode, productLine, costCenter) == <<>>

\* the useMemo existingAssumption: <<>> for null, else the first match
ExistingAssumption(d, planId, accountCode, productLine, costCenter) ==
    IF ~Truthy(planId) \/ ~Truthy(accountCode) THEN <<>>
    ELSE LET hits == SelectSeq(d.assumptions, LAMBDA a :
                         /\ a.planId = planId
                         /\ a.accountCode = accountCode
                         /\ a.productLineCode = DimensionOf(productLine)
                         /\ a.costCenterCode = DimensionOf(costCenter))
         IN IF hits = <<>> THEN <<>> ELSE <<Head(hits)>>

\* the effect that loads the draft when the selection or the store changes
LoadDraft(d, planId, accountCode, productLine, costCenter) ==
    LET existing == ExistingAssumption(d, planId, accountCode, productLine, costCenter)
    IN /\ draftMethod' = (IF existing # <<>> THEN existing[1].method ELSE "Trend")
       /\ draftParams' = (IF existing # <<>> THEN existing[1].params ELSE EmptyParams)

\* the predicate handleCommitForecast drops records by
Replaced(r, a) ==
    LET recordPlMatch == IF Truthy(a.productLineCode)
                         THEN r.productLineCode = a.productLineCode
                         ELSE r.productLineCode = "" \/ r.productLineCode = "GEN_PL"
        recordCcMatch == IF Truthy(a.costCenterCode)
                         THEN r.costCenterCode = a.costCenterCode
                         ELSE r.costCenterCode = "" \/ r.costCenterCode = "GEN_CC"
    IN /\ r.planId = a.planId
       /\ r.accountCode = a.accountCode
       /\ recordPlMatch
       /\ recordCcMatch

\* the codes the account list offers: the accounts of the categories shown
AccountCodes(d) ==
    {d.accounts[k].code : k \in {j \in 1..Len(d.accounts) :
        d.accounts[j].category \in {"Revenue", "COGS", "OpEx", "Depreciation",
                                    "Other Income", "Taxes", "Cash Flow Items"}}}

\* the codes the two dimension selects offer
ProductLineOptions == {"All", "PL_IOT"}
CostCenterOptions == {"All", "200"}
MethodTabs == {"Trend", "GrowthYearOverYear", "PercentOfRevenue", "Manual"}

\* the store the view opens on: two months of actuals, budget lines of the
\* default plan on the general and on a specific product line, a budget line
\* of another account and one of another plan
SeedRecords ==
    <<Rec(0, Undefined, Period(2024, 11), ACTUAL, "EXP_MKT", "200", "PL_IOT", 100),
      Rec(0, Undefined, Period(2024, 12), ACTUAL, "EXP_MKT", "200", "PL_IOT", 110),
      Rec(0, "P1", Period(2025, 1), BUDGET, "EXP_MKT", "GEN_CC", "GEN_PL", 50),
      Rec(0, "P1", Period(2025, 1), BUDGET, "EXP_MKT", "", "PL_IOT", 60),
      Rec(0, "P1", Period(2025, 1), BUDGET, "REV_SUB", "GEN_CC", "GEN_PL", 1000),
      Rec(0, "P0", Period(2025, 1), BUDGET, "EXP_MKT", "GEN_CC", "GEN_PL", 70)>>

Init ==
    /\ tz \in TimeZones
    /\ data = [EmptyData EXCEPT !.records = SeedRecords,
                                !.accounts = <<Account("EXP_MKT", "OpEx")>>,
                                !.plans = <<Plan("P1", Period(2025, 1), Period(2025, 12)),
                                            Plan("P2", Period(2026, 1), Period(2026, 12))>>]
    /\ activePlanId = "P1"
    /\ selectedAccountCode = Undefined
    /\ selectedProductLineCode = "All"
    /\ selectedCostCenterCode = "All"
    /\ draftMethod = "Trend"
    /\ draftParams = EmptyParams
    /\ uuid = 0
    /\ now = Period(2025, 1)
    /\ call = NoCall

\* the plan select offers the stored plans
SetActivePlanId ==
    /\ \E k \in 1..Len(data.plans) :
          /\ activePlanId' = data.plans[k].id
          /\ LoadDraft(data, data.plans[k].id, selectedAccountCode,
                       selectedProductLineCode, selectedCostCenterCode)
    /\ UNCHANGED <<tz, data, selectedAccountCode, selectedProductLineCode,
                   selectedCostCenterCode, uuid, now, call>>

SetSelectedAccountCode ==
    /\ \E code \in AccountCodes(data) :
          /\ selectedAccountCode' = code
          /\ LoadDraft(data, activePlanId, code, selectedProductLineCode,
                       selectedCostCenterCode)
    /\ UNCHANGED <<tz, data, activePlanId, selectedProductLineCode,
                   selectedCostCenterCode, uuid, now, call>>

SetSelectedProductLineCode ==
    /\ Truthy(selectedAccountCode)
    /\ \E code \in ProductLineOptions :
          /\ selectedProductLineCode' = code
          /\ LoadDraft(data, activePlanId, selectedAccountCode, code,
                       selectedCostCenterCode)
    /\ UNCHANGED <<tz, data, activePlanId, selectedAccountCode,
                   selectedCostCenterCode, uuid, now, call>>

SetSelectedCostCenterCode ==
    /\ Truthy(selectedAccountCode)
    /\ \E code \in CostCenterOptions :
          /\ selectedCostCenterCode' = code
          /\ LoadDraft(data, activePlanId, selectedAccountCode,
                       selectedProductLineCode, code)
    /\ UNCHANGED <<tz, data, activePlanId, selectedAccountCode,
                   selectedProductLineCode, uuid, now, call>>

SetDraftMethod ==
    /\ Truthy(selectedAccountCode)
    /\ \E m \in MethodTabs : draftMethod' = m
    /\ UNCHANGED <<tz, data, activePlanId, selectedAccountCode, selectedProductLineCode,
                   selectedCostCenterCode, draftParams, uuid, now, call>>

\* 'NaN-01' and 'NaN-12': the dates of a plan whose year did not parse
NaNJanuary == NoPeriod - 4
NaNDecember == NoPeriod - 5

\* new Date(text + '-01') of a text that is no YYYY-MM date is left to the
\* engine: Invalid Date, or the date its own heuristics read ('NaN-01-01' as
\* the first of January 2001, local time)
DateEngines == {"InvalidDate", "LegacyParse"}

\* generateForecast on the dates of a plan, for a host in UTC when the dates
\* are malformed.  With Invalid Date monthCount is NaN, which passes
\* monthCount <= 0: Array(NaN) throws a RangeError (Trend on fewer than two
\* history points, default branch), and the loops bounded by NaN and
\* Array.from({length: NaN}) give no amount, hence no record
ForecastOfPlan(engine, zone, a, d, startDate, endDate, firstId) ==
    IF startDate >= 0 /\ endDate >= 0
    THEN [threw |-> FALSE,
          records |-> generateForecast(zone, a, d, startDate, endDate, firstId)]
    ELSE IF engine = "LegacyParse"
    THEN [threw |-> FALSE,
          records |-> generateForecast(zone, a, d, Period(2001, 1), Period(2001, 12), firstId)]
    ELSE [threw |-> \/ (a.method = "Trend" /\ Len(History(a, d)) < 2)
                    \/ a.method \notin {"Trend", "GrowthYearOverYear", "Manual",
                                        "PercentOfRevenue"},
          records |-> <<>>]

HandleCommitForecast ==
    /\ uuid <= MaxUuid
    /\ Truthy(activePlanId)
    /\ Truthy(selectedAccountCode)
    /\ ActivePlan(data, activePlanId) # <<>>
    /\ LET activePlan == Head(ActivePlan(data, activePlanId))
           existingAssumption ==
               ExistingAssumption(data, activePlanId, selectedAccountCode,
                                  selectedProductLineCode, selectedCostCenterCode)
           drawn == IF existingAssumption # <<>> THEN 0 ELSE 1
           newAssumption ==
               Assumption(IF existingAssumption # <<>> THEN existingAssumption[1].id
                          ELSE uuid + 1,
                          activePlanId, selectedAccountCode,
                          DimensionOf(selectedProductLineCode),
                          DimensionOf(selectedCostCenterCode),
                          draftMethod, draftParams)
           cleanRecords == SelectSeq(data.records, LAMBDA r : ~Replaced(r, newAssumption))
           updatedAssumptions ==
               IF existingAssumption # <<>>
               THEN [k \in 1..Len(data.assumptions) |->
                        IF data.assumptions[k].id = existingAssumption[1].id
                        THEN newAssumption ELSE data.assumptions[k]]
               ELSE Append(data.assumptions, newAssumption)
       IN \E engine \in DateEngines :
             LET generated == ForecastOfPlan(engine, tz, newAssumption, data,
                                             activePlan.startDate, activePlan.endDate,
                                             uuid + drawn)
                 newRecords == generated.records
             IN \* an exception in generateForecast leaves the handler before onUpdate
                /\ data' = IF generated.threw THEN data
                           ELSE [data EXCEPT !.records = cleanRecords \o newRecords,
                                             !.assumptions = updatedAssumptions]
                /\ uuid' = uuid + drawn + Len(newRecords)
                /\ call' = [fn |-> "handleCommitForecast", baseRecords |-> data.records,
                            assumptions |-> data.assumptions,
                            assumption |-> newAssumption, result |-> newRecords,
                            threw |-> generated.threw]
    /\ UNCHANGED <<tz, ui, now>>

\* the confirmed branch; a declined confirm leaves everything as it is
HandleDeletePlan ==
    /\ Truthy(activePlanId)
    /\ LET updatedPlans == SelectSeq(data.plans, LAMBDA p : p.id # activePlanId)
           next == IF updatedPlans # <<>> THEN updatedPlans[1].id ELSE Undefined
       IN /\ data' = [data EXCEPT
                         !.plans = updatedPlans,
                         !.assumptions = SelectSeq(@, LAMBDA a : a.planId # activePlanId),
                         !.records = SelectSeq(@, LAMBDA r : r.planId # activePlanId)]
          /\ activePlanId' = next
          /\ LoadDraft(data', next, selectedAccountCode, selectedProductLineCode,
                       selectedCostCenterCode)
    /\ call' = [fn |-> "handleDeletePlan", planId |-> activePlanId, before |-> data]
    /\ UNCHANGED <<tz, selectedAccountCode, selectedProductLineCode,
                   selectedCostCenterCode, uuid, now>>

Next ==
    \/ SetActivePlanId
    \/ SetSelectedAccountCode
    \/ SetSelectedProductLineCode
    \/ SetSelectedCostCenterCode
    \/ SetDraftMethod
    \/ HandleCommitForecast
    \/ HandleDeletePlan

Spec == Init /\ [][Next]_vars

----------------------------------------------------------------------------
(* Claims about handleCommitForecast *)

IsCommit == call # NoCall /\ call.fn = "handleCommitForecast"

\* a record is of the tuple (plan, account, product line?, cost centre?): an
\* absent dimension takes the records whose field is '' or the sentinel
OfTuple(r, t) ==
    /\ r.planId = t.planId
    /\ r.accountCode = t.accountCode
    /\ IF t.productLineCode = Undefined THEN r.productLineCode \in {"", "GEN_PL"}
       ELSE r.productLineCode = t.productLineCode
    /\ IF t.costCenterCode = Undefined THEN r.costCenterCode \in {"", "GEN_CC"}
       ELSE r.costCenterCode = t.costCenterCode

\* after a commit the store is the previous records that are not of the
\* committed tuple, unchanged and in their order, followed by the new records
C1_ReplacePart ==
    IsCommit =>
        data.records = SelectSeq(call.baseRecords, LAMBDA r : ~OfTuple(r, call.assumption))
                          \o call.result

\* every committed tuple holds generated records only, one per period at most
C1_OneGenerationPart ==
    \A k \in 1..Len(data.assumptions) :
        LET held == SelectSeq(data.records, LAMBDA r : OfTuple(r, data.assumptions[k]))
        IN /\ \A i \in 1..Len(held) : held[i].id > 0
           /\ \A i, j \in 1..Len(held) : i # j => held[i].period # held[j].period

\* C1 (handleCommitForecast): a commit is a full replace - the store after it
\* is exactly the previous records outside the committed (plan, account,
\* dimension) tuple, unchanged, plus the newly generated records - and after
\* any sequence of commits each committed tuple holds one generation: at most
\* one record per period and none from an earlier generation or the seed.
C1_CommitIsFullReplace == C1_ReplacePart /\ C1_OneGenerationPart

\* the (planId, accountCode, productLineCode, costCenterCode) of an assumption
TupleOf(a) == <<a.planId, a.accountCode, a.productLineCode, a.costCenterCode>>

\* C11 (handleCommitForecast, existingAssumption): in every state reached by
\* commits and changes of the selected plan, account, product line and cost
\* centre no two stored assumptions share a (planId, accountCode,
\* productLineCode, costCenterCode) tuple; a commit for a tuple that already
\* has an assumption replaces it at its position and keeps its id, and a
\* commit for a new tuple appends one assumption.
C11_OneAssumptionPerTuple ==
    /\ \A i, j \in 1..Len(data.assumptions) :
          i # j => TupleOf(data.assumptions[i]) # TupleOf(data.assumptions[j])
    /\ IsCommit =>
          LET before == call.assumptions
              hits == {k \in 1..Len(before) : TupleOf(before[k]) = TupleOf(call.assumption)}
          IN IF hits = {}
             THEN data.assumptions = Append(before, call.assumption)
             ELSE /\ Len(data.assumptions) = Len(before)
                  /\ \A k \in 1..Len(before) :
                        IF k \in hits
                        THEN /\ data.assumptions[k] = call.assumption
                             /\ call.assumption.id = before[k].id
                        ELSE data.assumptions[k] = before[k]

\* a second commit for the tuple of the first, with another method
C11_Witness ==
    /\ IsCommit
    /\ Len(call.assumptions) = 1
    /\ TupleOf(call.assumptions[1]) = TupleOf(call.assumption)
    /\ call.assumptions[1].method = "Trend"
    /\ call.assumption.method = "Manual"
    /\ call.assumption.costCenterCode = "200"
    /\ data.assumptions = <<call.assumption>>

----------------------------------------------------------------------------
(* Claims about what applyRisksAndOps leaves alone *)

\* the months a selected entry is laid over, whatever its start and duration
\* fields hold: keys the call may touch
TouchedKeys ==
    UNION {{[period |-> (IF data.opportunities[e].startDate = NoPeriod THEN now
                         ELSE data.opportunities[e].startDate) + i,
             planId |-> call.planId,
             accountCode |-> data.opportunities[e].impactAccountCode,
             costCenterCode |-> IF data.opportunities[e].impactCostCenterCode = Undefined
                                THEN "" ELSE data.opportunities[e].impactCostCenterCode,
             productLineCode |-> IF data.opportunities[e].impactProductLineCode = Undefined
                                 THEN "" ELSE data.opportunities[e].impactProductLineCode] :
             i \in 0..(IF data.opportunities[e].durationMonths < 1 THEN 0
                       ELSE data.opportunities[e].durationMonths - 1)} :
              e \in {x \in 1..Len(data.opportunities) : Selected(x)}}

----------------------------------------------------------------------------
(* analysisScripts: aggregateByAccount, analyzeVariance *)

\* the keys of the Map aggregateByAccount builds, in insertion order
RECURSIVE MapKeys(_)
MapKeys(records) ==
    IF records = <<>> THEN <<>>
    ELSE LET before == MapKeys(SubSeq(records, 1, Len(records) - 1))
             code == records[Len(records)].accountCode
         IN IF \E k \in 1..Len(before) : before[k] = code THEN before
            ELSE Append(before, code)

\* map.get(code) || 0 on the Map aggregateByAccount builds
MapGet(records, code) ==
    SumSeq(Amounts(SelectSeq(records, LAMBDA r : r.accountCode = code)))

\* the time-range filter; an absent bound is NoPeriod
InRange(r, startPeriod, endPeriod) ==
    /\ ~(startPeriod # NoPeriod /\ r.period < startPeriod)
    /\ ~(endPeriod # NoPeriod /\ r.period > endPeriod)

\* new Set([...actualsMap.keys(), ...planMap.keys()])
RECURSIVE KeysUnion(_, _)
KeysUnion(first, second) ==
    IF second = <<>> THEN first
    ELSE IF \E k \in 1..Len(first) : first[k] = Head(second)
    THEN KeysUnion(first, Tail(second))
    ELSE KeysUnion(Append(first, Head(second)), Tail(second))

\* data.accounts.find(a => a.code === accCode)?.name || accCode
AccountName(accounts, accCode) ==
    LET hits == SelectSeq(accounts, LAMBDA a : a.code = accCode)
    IN IF hits # <<>> /\ Truthy(Head(hits).name) THEN Head(hits).name ELSE accCode

Abs(n) == IF n < 0 THEN 0 - n ELSE n

\* pln !== 0 ? diff / pln : (act !== 0 ? 1 : 0), the quotient with a positive
\* denominator
VariancePct(act, pln) ==
    IF pln # 0
    THEN (IF pln > 0 THEN Rat(act - pln, pln) ELSE Rat(pln - act, 0 - pln))
    ELSE (IF act # 0 THEN Rat(1, 1) ELSE Rat(0, 1))

\* Array.prototype.sort with b.absVar - a.absVar: stable, largest first
RECURSIVE InsertByAbsVar(_, _)
InsertByAbsVar(row, sorted) ==
    IF sorted = <<>> THEN <<row>>
    ELSE IF row.absVar > Head(sorted).absVar THEN <<row>> \o sorted
    ELSE <<Head(sorted)>> \o InsertByAbsVar(row, Tail(sorted))

RECURSIVE SortByAbsVar(_)
SortByAbsVar(rows) ==
    IF rows = <<>> THEN <<>>
    ELSE InsertByAbsVar(rows[Len(rows)], SortByAbsVar(SubSeq(rows, 1, Len(rows) - 1)))

\* variances.slice(0, 5)
TopDrivers == 5

\* the ranking without the sort: drivers in the order the accounts were met
Variances_Unsorted(d, planId, startPeriod, endPeriod) ==
    LET actuals == SelectSeq(d.records, LAMBDA r :
                       r.type = ACTUAL /\ InRange(r, startPeriod, endPeriod))
        plan == SelectSeq(d.records, LAMBDA r :
                       r.planId = planId /\ InRange(r, startPeriod, endPeriod))
        allAccounts == KeysUnion(MapKeys(actuals), MapKeys(plan))
    IN [k \in 1..Len(allAccounts) |->
           LET act == MapGet(actuals, allAccounts[k])
               pln == MapGet(plan, allAccounts[k])
           IN [code |-> allAccounts[k],
               account |-> AccountName(d.accounts, allAccounts[k]),
               actual |-> act, plan |-> pln, var |-> act - pln,
               absVar |-> Abs(act - pln), pct |-> VariancePct(act, pln)]]

\* the variances array after the sort; code is the key a row was built from
Variances(d, planId, startPeriod, endPeriod) ==
    LET actuals == SelectSeq(d.records, LAMBDA r :
                       r.type = ACTUAL /\ InRange(r, startPeriod, endPeriod))
        plan == SelectSeq(d.records, LAMBDA r :
                       r.planId = planId /\ InRange(r, startPeriod, endPeriod))
        allAccounts == KeysUnion(MapKeys(actuals), MapKeys(plan))
    IN SortByAbsVar(
         [k \in 1..Len(allAccounts) |->
            LET act == MapGet(actuals, allAccounts[k])
                pln == MapGet(plan, allAccounts[k])
            IN [code |-> allAccounts[k],
                account |-> AccountName(d.accounts, allAccounts[k]),
                actual |-> act, plan |-> pln, var |-> act - pln,
                absVar |-> Abs(act - pln), pct |-> VariancePct(act, pln)]])

analyzeVariance(d, planId, startPeriod, endPeriod) ==
    LET variances == Variances(d, planId, startPeriod, endPeriod)
    IN SubSeq(variances, 1, IF Len(variances) < TopDrivers THEN Len(variances) ELSE TopDrivers)

----------------------------------------------------------------------------
(* Specification of analyzeVariance: every input, one call *)

NamedAccount(code, name) == [code |-> code, name |-> name, category |-> "OpEx"]

\* a registry with a named account, an account whose name was cleared and
\* five codes left unmapped, and the empty registry
VarianceRegistries ==
    {<<NamedAccount("A1", "Marketing"), NamedAccount("A2", "")>>, <<>>}

\* seven account codes: actual and plan on both sides, a tie of |20|, an
\* actual below zero against no plan, a plan against no actual, equal sides,
\* a zero actual, a record of another plan
VarianceRecords ==
    <<Rec(0, Undefined, Period(2025, 1), ACTUAL, "A1", "", "", 100),
      Rec(0, "P1", Period(2025, 1), BUDGET, "A1", "", "", 80),
      Rec(0, Undefined, Period(2025, 1), ACTUAL, "A2", "", "", 50),
      Rec(0, "P1", Period(2025, 1), BUDGET, "A2", "", "", 90),
      Rec(0, Undefined, Period(2025, 2), ACTUAL, "A3", "", "", 0 - 50),
      Rec(0, "P1", Period(2025, 2), BUDGET, "A4", "", "", 20),
      Rec(0, Undefined, Period(2025, 3), ACTUAL, "A5", "", "", 7),
      Rec(0, "P1", Period(2025, 3), FORECAST, "A5", "", "", 7),
      Rec(0, Undefined, Period(2025, 1), ACTUAL, "A6", "", "", 0),
      Rec(0, "P2", Period(2025, 1), BUDGET, "A1", "", "", 300),
      Rec(0, Undefined, Period(2025, 2), ACTUAL, "A7", "", "", 1),
      Rec(0, Undefined, Period(2025, 3), ACTUAL, "A1", "", "", 5)>>

InitVariance ==
    /\ tz = "UTC"
    /\ data \in {[EmptyData EXCEPT !.records = rs, !.accounts = reg] :
                    rs \in SubSeqs(VarianceRecords), reg \in VarianceRegistries}
    /\ activePlanId = Undefined
    /\ selectedAccountCode = Undefined
    /\ selectedProductLineCode = "All"
    /\ selectedCostCenterCode = "All"
    /\ draftMethod = "Trend"
    /\ draftParams = EmptyParams
    /\ uuid = 0
    /\ now = Period(2025, 1)
    /\ call = NoCall

CallAnalyzeVariance ==
    /\ call = NoCall
    /\ \E planId \in {"P1", "P2"},
          startPeriod \in {NoPeriod, Period(2025, 2)},
          endPeriod \in {NoPeriod, Period(2025, 2)} :
          call' = [fn |-> "analyzeVariance", planId |-> planId,
                   startPeriod |-> startPeriod, endPeriod |-> endPeriod,
                   result |-> analyzeVariance(data, planId, startPeriod, endPeriod)]
    /\ UNCHANGED <<tz, data, ui, uuid, now>>

NextVariance == CallAnalyzeVariance

SpecVariance == InitVariance /\ [][NextVariance]_vars

----------------------------------------------------------------------------
(* Claims about analyzeVariance *)

IsVarianceCall == call # NoCall /\ call.fn = "analyzeVariance"

\* the records of the call's period range, both bounds inclusive and optional
Ranged ==
    SelectSeq(data.records, LAMBDA r :
        /\ (call.startPeriod = NoPeriod \/ r.period >= call.startPeriod)
        /\ (call.endPeriod = NoPeriod \/ r.period <= call.endPeriod))

ActualTotal(code) ==
    SumSeq(Amounts(SelectSeq(Ranged, LAMBDA r : r.type = ACTUAL /\ r.accountCode = code)))

PlanTotal(code) ==
    SumSeq(Amounts(SelectSeq(Ranged, LAMBDA r :
        r.planId = call.planId /\ r.accountCode = code)))

\* the account codes present on either side
VarianceCodes ==
    {Ranged[k].accountCode : k \in {j \in 1..Len(Ranged) :
        Ranged[j].type = ACTUAL \/ Ranged[j].planId = call.planId}}

Registered(code) == \E k \in 1..Len(data.accounts) : data.accounts[k].code = code

RegistryName(code) ==
    data.accounts[CHOOSE k \in 1..Len(data.accounts) :
        /\ data.accounts[k].code = code
        /\ \A j \in 1..(k - 1) : data.accounts[j].code # code].name

\* min(5, codes) drivers of distinct codes, each with the totals of its code,
\* in non-increasing order of |actual - plan|, none omitted that is larger
RankedByAbsoluteVariance ==
    LET out == call.result
        returned == {out[k].code : k \in 1..Len(out)}
    IN /\ Len(out) = (IF Cardinality(VarianceCodes) < 5 THEN Cardinality(VarianceCodes)
                      ELSE 5)
       /\ returned \subseteq VarianceCodes
       /\ Cardinality(returned) = Len(out)
       /\ \A k \in 1..Len(out) :
             /\ out[k].actual = ActualTotal(out[k].code)
             /\ out[k].plan = PlanTotal(out[k].code)
             /\ out[k].var = out[k].actual - out[k].plan
       /\ \A k \in 1..(Len(out) - 1) : Abs(out[k].var) >= Abs(out[k + 1].var)
       /\ \A c \in VarianceCodes \ returned : \A k \in 1..Len(out) :
             Abs(ActualTotal(c) - PlanTotal(c)) <= Abs(out[k].var)

\* C13 as stated (analyzeVariance): per account code the Actual records and
\* the records of the plan are summed over the inclusive optional range;
\* min(5, codes present) drivers are returned in non-increasing order of
\* |actual - plan|, no omitted account being larger than a returned one; var
\* is actual - plan and the name is the registry name of the code, or the
\* code itself when the code is unmapped.
C13_NameIsRegistryNameWhenMapped ==
    IsVarianceCall =>
        /\ RankedByAbsoluteVariance
        /\ \A k \in 1..Len(call.result) :
              call.result[k].account
                 = (IF Registered(call.result[k].code)
                    THEN RegistryName(call.result[k].code) ELSE call.result[k].code)

\* C13 amended (analyzeVariance): the same ranking and totals; the name is the
\* registry name of the code when the code is mapped to a non-empty name, and
\* the code itself when it is unmapped or its registry name is empty.
C13_RankedWithNameOrCode ==
    IsVarianceCall =>
        /\ RankedByAbsoluteVariance
        /\ \A k \in 1..Len(call.result) :
              call.result[k].account
                 = (IF Registered(call.result[k].code)
                       /\ RegistryName(call.result[k].code) # ""
                    THEN RegistryName(call.result[k].code) ELSE call.result[k].code)

\* seven codes, five returned: |-50|, |-40|, |25|, |-20|, |1|, the two of 0
\* left out; the mapped code carries its name, the cleared name its code
C13_Witness ==
    /\ IsVarianceCall
    /\ call.planId = "P1"
    /\ call.startPeriod = NoPeriod
    /\ call.endPeriod = NoPeriod
    /\ Cardinality(VarianceCodes) = 7
    /\ [k \in 1..Len(call.result) |-> call.result[k].var]
          = <<0 - 50, 0 - 40, 25, 0 - 20, 1>>
    /\ [k \in 1..Len(call.result) |-> call.result[k].account]
          = <<"A3", "A2", "Marketing", "A4", "A7">>

\* C14 (analyzeVariance): pct never divides by zero - it is variance / plan
\* when the plan total is not zero; when the plan total is zero it is 0 if the
\* actual total is zero too, +1 if the actual total is positive and -1 if it
\* is negative; it is never NaN or infinite (its denominator is never 0).
C14_PctSentinelHasTheSignOfTheVariance ==
    IsVarianceCall =>
        \A k \in 1..Len(call.result) :
            LET row == call.result[k]
            IN /\ row.pct[2] # 0
               /\ IF row.plan # 0
                  THEN row.pct[1] * row.plan = row.var * row.pct[2]
                  ELSE row.pct = (IF row.actual = 0 THEN Rat(0, 1)
                                  ELSE IF row.actual > 0 THEN Rat(1, 1)
                                  ELSE Rat(0 - 1, 1))

----------------------------------------------------------------------------
(* excelService: parseHyperionActuals; Settings: the import handler *)

\* a worksheet row: Period (NoPeriod when the cell is empty), Account,
\* CostCenter, Product, and Amount as <<n>> for a number and <<>> for a cell
\* parseFloat turns into NaN
Row(period, account, costCenter, product, amount) ==
    [Period |-> period, Account |-> account, CostCenter |-> costCenter,
     Product |-> product, Amount |-> amount]

\* String.prototype.trim on the cell texts of the model
Trim(text) ==
    CASE text = " EXP_MKT " -> "EXP_MKT"
      [] text = "GEN_CC " -> "GEN_CC"
      [] OTHER -> text

\* the records parseHyperionActuals resolves with; firstId + k is the k-th id
\* crypto.randomUUID() returns
RECURSIVE ParseRows(_, _)
ParseRows(rawRows, firstId) ==
    IF rawRows = <<>> THEN <<>>
    ELSE LET row == Head(rawRows)
         IN IF row.Period # NoPeriod /\ row.Amount # <<>>
            THEN <<Rec(firstId + 1, Undefined, row.Period, ACTUAL, Trim(row.Account),
                       Trim(row.CostCenter), Trim(row.Product), row.Amount[1])>>
                    \o ParseRows(Tail(rawRows), firstId + 1)
            ELSE ParseRows(Tail(rawRows), firstId)

parseHyperionActuals(rawRows, firstId) == ParseRows(rawRows, firstId)

\* the pieces of a code between its underscores
Segments(code) ==
    CASE code = "EXP_GEN" -> <<"EXP", "GEN">>
      [] code = "GEN_CC" -> <<"GEN", "CC">>
      [] code = "GEN_PL" -> <<"GEN", "PL">>
      [] code = "EXP_MKT" -> <<"EXP", "MKT">>
      [] code = "REV_SUB" -> <<"REV", "SUB">>
      [] code = "PL_IOT" -> <<"PL", "IOT">>
      [] OTHER -> <<code>>

\* `${r.period}_${r.accountCode}_${r.costCenterCode}_${r.productLineCode}`:
\* the text as its pieces between underscores, the period being one piece
ImportKey(r) ==
    <<r.period>> \o Segments(r.accountCode) \o Segments(r.costCenterCode)
                 \o Segments(r.productLineCode)

\* the records the import handler stores: newRecords.length > 0 guards it
ImportedStore(records, newRecords) ==
    IF newRecords = <<>> THEN records
    ELSE LET incomingKeys == {ImportKey(newRecords[k]) : k \in 1..Len(newRecords)}
             existingCleaned == SelectSeq(records, LAMBDA r :
                                    r.type # ACTUAL \/ ImportKey(r) \notin incomingKeys)
         IN existingCleaned \o newRecords

\* the onChange handler of the file input with a workbook that parses
ImportActuals(rawRows) ==
    LET newRecords == parseHyperionActuals(rawRows, uuid)
    IN /\ data' = [data EXCEPT !.records = ImportedStore(data.records, newRecords)]
       /\ uuid' = uuid + Len(newRecords)
       /\ call' = [fn |-> "importActuals", baseRecords |-> data.records,
                   result |-> newRecords]
       /\ UNCHANGED <<tz, ui, now>>

----------------------------------------------------------------------------
(* Specification of the import: every store, one import *)

MaxRows == 2          \* rows of an imported worksheet

ImportRows ==
    {Row(Period(2025, 1), "EXP_GEN", "CC", "PL", <<10>>),
     Row(Period(2025, 1), "EXP", "GEN_CC", "PL", <<20>>),
     Row(Period(2025, 1), " EXP_MKT ", "GEN_CC ", "GEN_PL", <<40>>),
     Row(Period(2025, 2), "EXP_MKT", "GEN_CC", "GEN_PL", <<0 - 5>>),
     Row(NoPeriod, "EXP_MKT", "GEN_CC", "GEN_PL", <<5>>),
     Row(Period(2025, 1), "EXP_MKT", "GEN_CC", "GEN_PL", <<>>)}

\* records in the store before the import: actuals an import may replace,
\* actuals of other keys, and plan records on the keys of actuals
ImportStoreRecords ==
    <<Rec(0, Undefined, Period(2025, 1), ACTUAL, "EXP_MKT", "GEN_CC", "GEN_PL", 100),
      Rec(0, Undefined, Period(2025, 1), ACTUAL, "EXP_GEN", "CC", "PL", 7),
      Rec(0, Undefined, Period(2025, 1), ACTUAL, "EXP_MKT", "GEN_CC", "PL_IOT", 8),
      Rec(0, Undefined, Period(2025, 3), ACTUAL, "EXP_MKT", "GEN_CC", "GEN_PL", 9),
      Rec(0, "P1", Period(2025, 1), BUDGET, "EXP_MKT", "GEN_CC", "GEN_PL", 50),
      Rec(0, "P1", Period(2025, 1), FORECAST, "EXP_GEN", "CC", "PL", 60),
      Rec(0, Undefined, Period(2025, 1), ACTUAL, "EXP_MKT", "GEN_CC", "GEN_PL", 110)>>

InitImport ==
    /\ tz = "UTC"
    /\ data \in {[EmptyData EXCEPT !.records = rs] : rs \in SubSeqs(ImportStoreRecords)}
    /\ activePlanId = Undefined
    /\ selectedAccountCode = Undefined
    /\ selectedProductLineCode = "All"
    /\ selectedCostCenterCode = "All"
    /\ draftMethod = "Trend"
    /\ draftParams = EmptyParams
    /\ uuid = 0
    /\ now = Period(2025, 1)
    /\ call = NoCall

CallImportActuals ==
    /\ call = NoCall
    /\ \E rawRows \in SeqsUpTo(ImportRows, MaxRows) : ImportActuals(rawRows)

NextImport == CallImportActuals

SpecImport == InitImport /\ [][NextImport]_vars

----------------------------------------------------------------------------
(* Claims about the import *)

IsImport == call # NoCall /\ call.fn = "importActuals"

FourTuple(r) == <<r.period, r.accountCode, r.costCenterCode, r.productLineCode>>

\* C15 (import handler): importing a non-empty parsed set N into a store S
\* gives exactly the non-Actual records of S, the Actual records of S whose
\* (period, accountCode, costCenterCode, productLineCode) differs from that of
\* every record of N, all unchanged and in their order, and then the records
\* of N; an import without a valid row leaves the store as it was.
C15_ImportReplacesByExactKey ==
    IsImport =>
        LET S == call.baseRecords
            N == call.result
        IN IF N = <<>> THEN data.records = S
           ELSE data.records
                  = SelectSeq(S, LAMBDA r :
                        \/ r.type # ACTUAL
                        \/ \A k \in 1..Len(N) : FourTuple(r) # FourTuple(N[k])) \o N

----------------------------------------------------------------------------
(* The store under imports, budget rows, demo data, commits and plan deletion *)

MaxDrawn == 4         \* ids drawn so far beyond which no row, import or demo set is added

DEFAULT_PLAN_ID == "plan-2025-base"

\* array[0]?.code || ''
FirstCode(mappings) == IF mappings = <<>> THEN "" ELSE OrEmpty(mappings[1].code)

\* generateStandardSaaSData, with generateRecords cut down to one account and
\* one month: a Budget record of the default plan and an Actual record
generateStandardSaaSData(firstId) ==
    [accounts |-> <<Account("EXP_MKT", "OpEx"), Account("REV_SUB", "Revenue")>>,
     costCenters |-> <<[code |-> "200"]>>,
     productLines |-> <<[code |-> "PL_IOT"]>>,
     records |-> <<Rec(firstId + 1, DEFAULT_PLAN_ID, Period(2025, 1), BUDGET,
                       "EXP_MKT", "GEN_CC", "GEN_PL", 5000),
                   [id |-> firstId + 2, planId |-> Undefined, period |-> Period(2025, 1),
                    type |-> ACTUAL, accountCode |-> "EXP_MKT",
                    costCenterCode |-> "GEN_CC", productLineCode |-> "GEN_PL",
                    amount |-> 4900]>>,
     opportunities |-> <<>>,
     plans |-> <<Plan(DEFAULT_PLAN_ID, Period(2025, 1), Period(2025, 12))>>,
     assumptions |-> <<>>]

\* App.generateDemoData: setData(generateStandardSaaSData())
GenerateDemoData ==
    /\ uuid < MaxDrawn
    /\ data' = generateStandardSaaSData(uuid)
    /\ uuid' = uuid + 2
    /\ call' = [fn |-> "generateDemoData"]
    /\ UNCHANGED <<tz, ui, now>>

\* the Forecast view is mounted: its useState initial values
OpenForecast ==
    /\ activePlanId' = (IF Len(data.plans) > 0 THEN data.plans[1].id ELSE Undefined)
    /\ selectedAccountCode' = Undefined
    /\ selectedProductLineCode' = "All"
    /\ selectedCostCenterCode' = "All"
    /\ draftMethod' = "Trend"
    /\ draftParams' = EmptyParams
    /\ UNCHANGED <<tz, data, uuid, now, call>>

\* Budgeting.handleAddRow; selectedPeriod is the month the view opened in
HandleAddRow ==
    /\ uuid < MaxDrawn
    /\ data' = [data EXCEPT !.records =
                   Append(@, [id |-> uuid + 1, planId |-> Undefined, period |-> now,
                              type |-> BUDGET,
                              accountCode |-> FirstCode(data.accounts),
                              costCenterCode |-> FirstCode(data.costCenters),
                              productLineCode |-> FirstCode(data.productLines),
                              amount |-> 0])]
    /\ uuid' = uuid + 1
    /\ call' = [fn |-> "handleAddRow"]
    /\ UNCHANGED <<tz, ui, now>>

\* the rows the Budgeting table shows
CurrentRows == {k \in 1..Len(data.records) :
                   data.records[k].type = BUDGET /\ data.records[k].period = now}

\* Budgeting.handleUpdateRow from the account select and the amount input
HandleUpdateRow ==
    /\ \E k \in CurrentRows :
          \/ \E a \in 1..Len(data.accounts) :
                data' = [data EXCEPT !.records =
                            [j \in 1..Len(@) |->
                               IF @[j].id = @[k].id
                               THEN [@[j] EXCEPT !.accountCode = data.accounts[a].code]
                               ELSE @[j]]]
          \/ \E value \in {10} :
                data' = [data EXCEPT !.records =
                            [j \in 1..Len(@) |->
                               IF @[j].id = @[k].id
                               THEN [@[j] EXCEPT !.amount = value] ELSE @[j]]]
    /\ call' = [fn |-> "handleUpdateRow"]
    /\ UNCHANGED <<tz, ui, uuid, now>>

\* Budgeting.handleDeleteRow
HandleDeleteRow ==
    /\ \E k \in CurrentRows :
          data' = [data EXCEPT !.records =
                      SelectSeq(@, LAMBDA r : r.id # data.records[k].id)]
    /\ call' = [fn |-> "handleDeleteRow"]
    /\ UNCHANGED <<tz, ui, uuid, now>>

\* the import handler with a worksheet of the model
HandleImport ==
    /\ uuid < MaxDrawn
    /\ \E rawRows \in SeqsUpTo(ImportRows, 1) : ImportActuals(rawRows)

InitStore ==
    /\ tz = "UTC"
    /\ data = EmptyData
    /\ activePlanId = Undefined
    /\ selectedAccountCode = Undefined
    /\ selectedProductLineCode = "All"
    /\ selectedCostCenterCode = "All"
    /\ draftMethod = "Trend"
    /\ draftParams = EmptyParams
    /\ uuid = 0
    /\ now = Period(2025, 1)
    /\ call = NoCall

NextStore ==
    \/ GenerateDemoData
    \/ HandleImport
    \/ HandleAddRow
    \/ HandleUpdateRow
    \/ HandleDeleteRow
    \/ OpenForecast
    \/ SetSelectedAccountCode
    \/ HandleCommitForecast
    \/ HandleDeletePlan

SpecStore == InitStore /\ [][NextStore]_vars

----------------------------------------------------------------------------
(* Claims about the store *)

\* C16 (store): in every state reached by imports, forecast commits, budget
\* row additions and edits, demo-data generation and plan deletions every
\* Actual record has no planId and every Budget or Forecast record has one.
C16_PlanIdFollowsType ==
    \A k \in 1..Len(data.records) :
        /\ data.records[k].type = ACTUAL => data.records[k].planId = Undefined
        /\ data.records[k].type \in {BUDGET, FORECAST} => data.records[k].planId # Undefined

----------------------------------------------------------------------------
(* Reporting view: period resolution and aggregation                       *)
(*                                                                         *)
(* The periods of the model have four-digit years, where `${year}` prints  *)
(* the digits parseInt read. An entity filter 'PL|code' or 'CC|code' is    *)
(* the pair <<kind, code>>, '' is <<"", "">>: the codes of the registry    *)
(* hold no '|', so split('|')[1] is the code.                              *)

\* 'NaN-NaN' and 'NaN-undefined': what an empty month input resolves to
NaNPeriod == NoPeriod - 1
NaNUndefinedPeriod == NoPeriod - 2
\* a year-month text whose month is not 01..12
MalformedPeriod == NoPeriod - 3

\* `${year}-${month.toString().padStart(2, '0')}`
PeriodString(year, month) ==
    IF month \in 1..12 THEN Period(year, month) ELSE MalformedPeriod

\* a quarter that starts at the selected month
QuarterStart_SelectedMonth(month) == month

\* q = Math.ceil(month / 3); startMonth = (q - 1) * 3 + 1
QuarterStart(month) ==
    LET q == (month + 2) \div 3 IN (q - 1) * 3 + 1

\* the TTM loop: push, currM--, and at 0 wrap to December of the year before
RECURSIVE TrailingMonths(_, _, _)
TrailingMonths(currY, currM, left) ==
    IF left = 0 THEN <<>>
    ELSE <<PeriodString(currY, currM)>> \o
         (IF currM - 1 = 0 THEN TrailingMonths(currY - 1, 12, left - 1)
                           ELSE TrailingMonths(currY, currM - 1, left - 1))

\* useMemo targetPeriods; with selectedDate '' year and month are NaN
TargetPeriods(timeBasis, selectedDate, selectedYear) ==
    LET isNaN == selectedDate = NoPeriod
        year == YearOf(selectedDate)
        month == MonthOf(selectedDate)
    IN CASE timeBasis = "Year" -> [i \in 1..12 |-> PeriodString(selectedYear, i)]
         [] timeBasis = "Monthly" -> <<selectedDate>>
         [] timeBasis = "Quarterly" ->
              IF isNaN THEN [i \in 1..3 |-> NaNPeriod]
              ELSE [i \in 1..3 |-> PeriodString(year, QuarterStart(month) + (i - 1))]
         [] timeBasis = "YTD" ->
              IF isNaN THEN <<>> ELSE [i \in 1..month |-> PeriodString(year, i)]
         [] timeBasis = "TTM" ->
              IF isNaN THEN [i \in 1..12 |-> NaNPeriod]
              ELSE TrailingMonths(year, month, 12)

\* useMemo pyPeriods: `${parseInt(y) - 1}-${m}`
PyPeriods(targetPeriods) ==
    [k \in 1..Len(targetPeriods) |->
        IF targetPeriods[k] = NoPeriod THEN NaNUndefinedPeriod
        ELSE IF targetPeriods[k] < NoPeriod THEN NaNPeriod
        ELSE PeriodString(YearOf(targetPeriods[k]) - 1, MonthOf(targetPeriods[k]))]

NoFilter == <<"", "">>

\* periods.includes(r.period)
Includes(periods, p) == \E k \in 1..Len(periods) : periods[k] = p

\* the entity clause of getAmount
EntityMatches(entityFilter, r) ==
    \/ entityFilter = NoFilter
    \/ (entityFilter[1] = "PL" /\ r.productLineCode = entityFilter[2])
    \/ (entityFilter[1] = "CC" /\ r.costCenterCode = entityFilter[2])

getAmount(d, entityFilter, type, periods, accountCode) ==
    Reduce(Amounts(SelectSeq(d.records, LAMBDA r :
        /\ r.type = type
        /\ r.accountCode = accountCode
        /\ Includes(periods, r.period)
        /\ EntityMatches(entityFilter, r))))

\* groupedAccounts[cat] || []
GroupedAccounts(d, cat) ==
    SelectSeq(d.accounts, LAMBDA a : Truthy(a.category) /\ a.category = cat)

calcTotal(d, entityFilter, cats, type, periods) ==
    Reduce([c \in 1..Len(cats) |->
        LET accs == GroupedAccounts(d, cats[c])
        IN Reduce([j \in 1..Len(accs) |->
               getAmount(d, entityFilter, type, periods, accs[j].code)])])

\* one column (act, bud or py) of getValues and of the formulas below it
ReportColumn(d, entityFilter, type, periods) ==
    LET revenue == calcTotal(d, entityFilter, <<"Revenue">>, type, periods)
        cogs == calcTotal(d, entityFilter, <<"COGS">>, type, periods)
        opex == calcTotal(d, entityFilter, <<"OpEx">>, type, periods)
        dep == calcTotal(d, entityFilter, <<"Depreciation">>, type, periods)
        otherInc == calcTotal(d, entityFilter, <<"Other Income">>, type, periods)
        taxes == calcTotal(d, entityFilter, <<"Taxes">>, type, periods)
        cfTotals == calcTotal(d, entityFilter, <<"Cash Flow Items">>, type, periods)
        grossProfit == Minus(revenue, cogs)
        ebit == Plus(Minus(Minus(grossProfit, opex), dep), otherInc)
        netIncome == Minus(ebit, taxes)
        fcf == Minus(Plus(netIncome, dep), cfTotals)
    IN [revenue |-> revenue, cogs |-> cogs, grossProfit |-> grossProfit,
        opex |-> opex, dep |-> dep, otherInc |-> otherInc, ebit |-> ebit,
        taxes |-> taxes, netIncome |-> netIncome, fcf |-> fcf]

\* the year the view opens on: the last of the sorted years of the records,
\* the current year when there is none
MaxYear(d) ==
    IF d.records = <<>> THEN YearOf(now)
    ELSE CHOOSE y \in {YearOf(d.records[k].period) : k \in 1..Len(d.records)} :
             \A k \in 1..Len(d.records) : YearOf(d.records[k].period) <= y

AvailableYears(d) ==
    IF d.records = <<>> THEN {YearOf(now)}
    ELSE {YearOf(d.records[k].period) : k \in 1..Len(d.records)}

\* the component: its state and what it renders from it
Render(d, timeBasis, selectedDate, selectedYear, entityFilter) ==
    LET targetPeriods == TargetPeriods(timeBasis, selectedDate, selectedYear)
        pyPeriods == PyPeriods(targetPeriods)
    IN [fn |-> "Reporting", timeBasis |-> timeBasis, selectedDate |-> selectedDate,
        selectedYear |-> selectedYear, entityFilter |-> entityFilter,
        targetPeriods |-> targetPeriods, pyPeriods |-> pyPeriods,
        act |-> ReportColumn(d, entityFilter, ACTUAL, targetPeriods),
        bud |-> ReportColumn(d, entityFilter, BUDGET, targetPeriods),
        py |-> ReportColumn(d, entityFilter, ACTUAL, pyPeriods)]

----------------------------------------------------------------------------
(* Specification of the Reporting view: a store, and the four controls *)

Dimension(code) == [code |-> code, name |-> code]

\* a chart with one account per category and a second revenue account, the
\* chart after the depreciation account was removed, and the chart with an
\* account that has no category
ReportRegistries ==
    {Registry \o <<Account("REV_SERV", "Revenue")>>,
     SelectSeq(Registry, LAMBDA a : a.code # "EXP_DEP"),
     <<Account("EXP_MKT", Undefined)>> \o SelectSeq(Registry, LAMBDA a : a.code # "EXP_MKT")}

ReportRecords ==
    <<Rec(1, Undefined, Period(2025, 4), ACTUAL, "REV_SUB", "200", "PL_IOT", 1000),
      Rec(2, Undefined, Period(2025, 5), ACTUAL, "REV_SERV", "GEN_CC", "PL_IOT", 64),
      Rec(3, Undefined, Period(2025, 6), ACTUAL, "COGS_HOST", "200", "GEN_PL", 300),
      Rec(4, Undefined, Period(2025, 3), ACTUAL, "EXP_MKT", "200", "PL_IOT", 128),
      Rec(5, Undefined, Period(2025, 1), ACTUAL, "EXP_DEP", "GEN_CC", "GEN_PL", 32),
      Rec(6, Undefined, Period(2025, 7), ACTUAL, "INC_OTHER", "GEN_CC", "GEN_PL", 0 - 16),
      Rec(7, Undefined, Period(2025, 12), ACTUAL, "EXP_TAX", "GEN_CC", "GEN_PL", 8),
      Rec(8, Undefined, Period(2025, 2), ACTUAL, "CF_CAPEX", "200", "GEN_PL", 4),
      Rec(9, Undefined, Period(2024, 4), ACTUAL, "REV_SUB", "200", "PL_IOT", 2000),
      Rec(10, Undefined, Period(2024, 12), ACTUAL, "EXP_MKT", "GEN_CC", "PL_IOT", 256),
      Rec(11, Undefined, Period(2023, 12), ACTUAL, "COGS_HOST", "200", "PL_IOT", 512),
      Rec(12, "P1", Period(2025, 4), BUDGET, "REV_SUB", "200", "PL_IOT", 900),
      Rec(13, "P1", Period(2025, 3), BUDGET, "EXP_MKT", "200", "GEN_PL", 100),
      Rec(14, "P1", Period(2025, 5), BUDGET, "EXP_OLD", "200", "PL_IOT", 2),
      Rec(15, Undefined, Period(2025, 5), ACTUAL, "EXP_OLD", "200", "PL_IOT", 1),
      Rec(16, "P1", Period(2024, 5), BUDGET, "EXP_TAX", "GEN_CC", "PL_IOT", 16)>>

\* records at the head of a store whose revenue reaches 2^53
ReportLarge ==
    <<Rec(17, Undefined, Period(2025, 4), ACTUAL, "REV_SUB", "200", "PL_IOT", Two53),
      Rec(18, Undefined, Period(2025, 4), ACTUAL, "REV_SERV", "200", "PL_IOT", 1),
      Rec(19, Undefined, Period(2025, 4), ACTUAL, "REV_SERV", "200", "PL_IOT", 1)>>

\* what the month input can hold: a month of the years of the store, or ''
ReportDates == {Period(y, m) : y \in {2024, 2025}, m \in 1..12} \cup {NoPeriod}

TimeBases == {"Monthly", "Quarterly", "YTD", "TTM", "Year"}

\* the options of the entity select
EntityOptions(d) ==
    {NoFilter} \cup {<<"PL", d.productLines[k].code>> : k \in 1..Len(d.productLines)}
               \cup {<<"CC", d.costCenters[k].code>> : k \in 1..Len(d.costCenters)}

InitReporting ==
    /\ tz \in {"UTC"}
    /\ data \in {[EmptyData EXCEPT !.records = large \o ReportRecords, !.accounts = reg,
                                   !.productLines = <<Dimension("PL_IOT")>>,
                                   !.costCenters = <<Dimension("200")>>] :
                    large \in {<<>>, ReportLarge}, reg \in ReportRegistries}
    /\ activePlanId = Undefined
    /\ selectedAccountCode = Undefined
    /\ selectedProductLineCode = "All"
    /\ selectedCostCenterCode = "All"
    /\ draftMethod = "Trend"
    /\ draftParams = EmptyParams
    /\ uuid = 0
    /\ now = Period(2025, 6)
    /\ call = Render(data, "Year", Period(MaxYear(data), 12), MaxYear(data), NoFilter)

SetTimeBasis ==
    /\ \E b \in TimeBases :
          call' = Render(data, b, call.selectedDate, call.selectedYear, call.entityFilter)
    /\ UNCHANGED <<tz, data, ui, uuid, now>>

\* the month input is shown for every basis but Fiscal Year
SetSelectedDate ==
    /\ call.timeBasis # "Year"
    /\ \E p \in ReportDates :
          call' = Render(data, call.timeBasis, p, call.selectedYear, call.entityFilter)
    /\ UNCHANGED <<tz, data, ui, uuid, now>>

SetSelectedYear ==
    /\ call.timeBasis = "Year"
    /\ \E y \in AvailableYears(data) :
          call' = Render(data, call.timeBasis, call.selectedDate, y, call.entityFilter)
    /\ UNCHANGED <<tz, data, ui, uuid, now>>

SetEntityFilter ==
    /\ \E f \in EntityOptions(data) :
          call' = Render(data, call.timeBasis, call.selectedDate, call.selectedYear, f)
    /\ UNCHANGED <<tz, data, ui, uuid, now>>

NextReporting ==
    \/ SetTimeBasis
    \/ SetSelectedDate
    \/ SetSelectedYear
    \/ SetEntityFilter

SpecReporting == InitReporting /\ [][NextReporting]_vars

----------------------------------------------------------------------------
(* Claims on the period resolution *)

\* the set of the entries of a sequence
Range(q) == {q[k] : k \in 1..Len(q)}

\* C17: with a month selected, Quarterly resolves to exactly the three
\* periods of the calendar quarter of that month (2025-05: 2025-04..06),
\* Year-to-Date to January..selected month of its year, Fiscal Year to the
\* twelve periods of the selected year, Monthly to the selected period alone,
\* Trailing-Twelve-Months to the twelve distinct consecutive periods that end
\* at the selected month (2025-03: 2024-04..2025-03); the prior-year set is
\* the same periods one year earlier, month unchanged.
C17_PeriodResolution ==
    call.fn = "Reporting" /\ call.selectedDate # NoPeriod =>
        LET y == YearOf(call.selectedDate)
            m == MonthOf(call.selectedDate)
            t == call.targetPeriods
        IN /\ call.timeBasis = "Quarterly" =>
                /\ Len(t) = 3
                /\ Range(t) = {Period(y, k) : k \in {j \in 1..12 :
                                   (j - 1) \div 3 = (m - 1) \div 3}}
           /\ call.timeBasis = "Quarterly" /\ call.selectedDate = Period(2025, 5) =>
                Range(t) = {Period(2025, 4), Period(2025, 5), Period(2025, 6)}
           /\ call.timeBasis = "YTD" =>
                /\ Len(t) = m
                /\ Range(t) = {Period(y, k) : k \in 1..m}
           /\ call.timeBasis = "Year" =>
                /\ Len(t) = 12
                /\ Range(t) = {Period(call.selectedYear, k) : k \in 1..12}
           /\ call.timeBasis = "Monthly" => t = <<call.selectedDate>>
           /\ call.timeBasis = "TTM" =>
                /\ Len(t) = 12
                /\ Range(t) = {p \in (call.selectedDate - 11)..call.selectedDate : TRUE}
                /\ Cardinality(Range(t)) = 12
           /\ call.timeBasis = "TTM" /\ call.selectedDate = Period(2025, 3) =>
                Range(t) = {Period(2024, k) : k \in 4..12} \cup {Period(2025, k) : k \in 1..3}
           /\ Len(call.pyPeriods) = Len(t)
           /\ \A k \in 1..Len(t) :
                /\ YearOf(call.pyPeriods[k]) = YearOf(t[k]) - 1
                /\ MonthOf(call.pyPeriods[k]) = MonthOf(t[k])

\* a trailing-twelve-months window that crosses January, and a quarter
\* selected by its middle month
C17_Witness ==
    /\ call.fn = "Reporting"
    /\ call.timeBasis = "TTM"
    /\ call.selectedDate = Period(2025, 3)
    /\ Includes(call.targetPeriods, Period(2024, 4))
    /\ Includes(call.pyPeriods, Period(2023, 4))

----------------------------------------------------------------------------
(* Claims on the aggregation of the Reporting view *)

\* the records of the store in the given periods, of the filtered entity
InWindow(periods, entityFilter) ==
    SelectSeq(data.records, LAMBDA r :
        /\ r.period \in Range(periods)
        /\ entityFilter[1] = "PL" => r.productLineCode = entityFilter[2]
        /\ entityFilter[1] = "CC" => r.costCenterCode = entityFilter[2])

\* the ten lines of a column are those of the aggregator
SameLines(column, pnl) ==
    /\ column.revenue = pnl.revenue
    /\ column.cogs = pnl.cogs
    /\ column.grossProfit = pnl.grossProfit
    /\ column.opex = pnl.opex
    /\ column.dep = pnl.dep
    /\ column.otherInc = pnl.otherIncome
    /\ column.ebit = pnl.ebit
    /\ column.taxes = pnl.taxes
    /\ column.netIncome = pnl.netIncome
    /\ column.fcf = pnl.fcf

\* the amounts of the store are below 2^53 in magnitude
SmallAmounts == \A k \in 1..Len(data.records) : Hi(data.records[k].amount) = 0

\* C18: whatever the store, the registry, the time basis, the selection and
\* the record type, each column of the Reporting view (revenue, cogs, gross
\* profit, opex, depreciation, other income, EBIT, taxes, net income, free
\* cash flow) is calculatePnL over the records whose period is in the
\* resolved set, restricted with a product-line (cost-centre) filter to the
\* records of exactly that product line (cost centre).
C18_ViewIsAggregatorOverWindow ==
    call.fn = "Reporting" =>
        /\ SameLines(call.act, calculatePnL(InWindow(call.targetPeriods, call.entityFilter),
                                            data.accounts, ACTUAL))
        /\ SameLines(call.bud, calculatePnL(InWindow(call.targetPeriods, call.entityFilter),
                                            data.accounts, BUDGET))
        /\ SameLines(call.py, calculatePnL(InWindow(call.pyPeriods, call.entityFilter),
                                           data.accounts, ACTUAL))

----------------------------------------------------------------------------
(* Specification of calculatePnL over ordered stores: every arrangement of
   up to MaxRecords records, one call *)

\* records two of which share a category under different accounts, one of
\* another type, one of an unregistered account, and one whose amount is 2^53
OrderedPool ==
    {Rec(1, Undefined, Period(2025, 1), ACTUAL, "REV_SUB", "200", "PL_IOT", Two53),
     Rec(2, Undefined, Period(2025, 1), ACTUAL, "REV_SUB", "200", "PL_IOT", 1),
     Rec(3, Undefined, Period(2025, 2), ACTUAL, "REV_SERV", "200", "PL_IOT", 1),
     Rec(4, Undefined, Period(2025, 2), ACTUAL, "COGS_HOST", "200", "PL_IOT", 300),
     Rec(5, "P1", Period(2025, 1), BUDGET, "REV_SUB", "200", "PL_IOT", 900),
     Rec(6, Undefined, Period(2025, 1), ACTUAL, "EXP_OLD", "200", "PL_IOT", 5)}

InitPnLOrder ==
    /\ tz \in {"UTC"}
    /\ data \in {[EmptyData EXCEPT !.records = rs,
                                   !.accounts = Registry \o <<Account("REV_SERV", "Revenue")>>] :
                    rs \in {q \in SeqsUpTo(OrderedPool, MaxRecords) : Injective(q)}}
    /\ activePlanId = Undefined
    /\ selectedAccountCode = Undefined
    /\ selectedProductLineCode = "All"
    /\ selectedCostCenterCode = "All"
    /\ draftMethod = "Trend"
    /\ draftParams = EmptyParams
    /\ uuid = 0
    /\ now = Period(2025, 6)
    /\ call = NoCall

SpecPnLOrder == InitPnLOrder /\ [][NextPnL]_vars

\* the rearrangements of a sequence
Rearranged(q) == {[i \in 1..Len(q) |-> q[f[i]]] : f \in Permutations(1..Len(q))}

\* the records of the call's type whose account the registry maps to cat
OfCategory(cat) ==
    SelectSeq(data.records, LAMBDA r :
        /\ r.type = call.type
        /\ \E k \in 1..Len(data.accounts) :
              /\ data.accounts[k].code = r.accountCode
              /\ data.accounts[k].category = cat
              /\ \A j \in 1..(k - 1) : data.accounts[j].code # r.accountCode)

\* C19: for every record set R, record type t and category C the category sum
\* of calculatePnL is the sum of the amounts of the records of R of type t
\* whose account the registry maps to C (added in the order of R), and every
\* output field is the same for every permutation of R.
C19_CategorySumsIndependentOfOrder ==
    call.fn = "calculatePnL" =>
        /\ call.result.revenue = Reduce(Amounts(OfCategory("Revenue")))
        /\ call.result.cogs = Reduce(Amounts(OfCategory("COGS")))
        /\ call.result.opex = Reduce(Amounts(OfCategory("OpEx")))
        /\ call.result.dep = Reduce(Amounts(OfCategory("Depreciation")))
        /\ call.result.otherIncome = Reduce(Amounts(OfCategory("Other Income")))
        /\ call.result.taxes = Reduce(Amounts(OfCategory("Taxes")))
        /\ call.result.cfItems = Reduce(Amounts(OfCategory("Cash Flow Items")))
        /\ \A q \in Rearranged(data.records) :
              calculatePnL(q, data.accounts, call.type) = call.result

----------------------------------------------------------------------------
(* analysisScripts: generateProfitWalk, and Settings: removeAccount *)

\* r.period.startsWith(String(year)): the period text is the digits of its
\* year and then '-', so it starts with the digits of year exactly when they
\* are the leading digits of its year
StartsWithYear(period, year) ==
    /\ period # NoPeriod
    /\ year >= 1
    /\ \E k \in 0..4 : YearOf(period) \div (10^k) = year

getGroupTotal(d, recs, category) ==
    Reduce(Amounts(SelectSeq(recs, LAMBDA r :
        LET acc == SelectSeq(d.accounts, LAMBDA a : a.code = r.accountCode)
        IN acc # <<>> /\ Head(acc).category = category)))

generateProfitWalk(d, planId, year) ==
    LET act == SelectSeq(d.records, LAMBDA r :
                   r.type = ACTUAL /\ StartsWithYear(r.period, year))
        pln == SelectSeq(d.records, LAMBDA r :
                   r.planId = planId /\ StartsWithYear(r.period, year))
        revAct == getGroupTotal(d, act, "Revenue")
        revPln == getGroupTotal(d, pln, "Revenue")
        cogsAct == getGroupTotal(d, act, "COGS")
        cogsPln == getGroupTotal(d, pln, "COGS")
        opexAct == getGroupTotal(d, act, "OpEx")
        opexPln == getGroupTotal(d, pln, "OpEx")
    IN [Revenue |-> [act |-> revAct, plan |-> revPln, diff |-> Minus(revAct, revPln)],
        GrossMargin |-> [act |-> Minus(revAct, cogsAct), plan |-> Minus(revPln, cogsPln),
                         diff |-> Minus(Minus(revAct, cogsAct), Minus(revPln, cogsPln))],
        EBITDA |-> [act |-> Minus(Minus(revAct, cogsAct), opexAct),
                    plan |-> Minus(Minus(revPln, cogsPln), opexPln),
                    diff |-> Minus(Minus(Minus(revAct, cogsAct), opexAct),
                                   Minus(Minus(revPln, cogsPln), opexPln))]]

\* data.accounts.filter(a => a.code !== code)
removeAccount(d, code) ==
    [d EXCEPT !.accounts = SelectSeq(d.accounts, LAMBDA a : a.code # code)]

----------------------------------------------------------------------------
(* Specification of the account registry: accounts are removed while the
   store keeps their records, and the roll-ups are computed *)

\* records of an account the chart never had and of a plan, at the head of
\* the store, two of them large
RegistryLarge ==
    <<Rec(0, Undefined, Period(2025, 1), ACTUAL, "REV_SUB", "200", "PL_IOT", Two53),
      Rec(0, Undefined, Period(2025, 1), ACTUAL, "EXP_OLD", "200", "PL_IOT", 1),
      Rec(0, Undefined, Period(2025, 2), ACTUAL, "COGS_HOST", "200", "PL_IOT", 1),
      Rec(0, "P1", Period(2025, 2), BUDGET, "EXP_MKT", "200", "PL_IOT", Two53 + 2)>>

InitRegistry ==
    /\ tz \in {"UTC"}
    /\ data \in {[EmptyData EXCEPT !.records = large \o PnLRecords, !.accounts = Registry] :
                    large \in {<<>>, RegistryLarge}}
    /\ activePlanId = Undefined
    /\ selectedAccountCode = Undefined
    /\ selectedProductLineCode = "All"
    /\ selectedCostCenterCode = "All"
    /\ draftMethod = "Trend"
    /\ draftParams = EmptyParams
    /\ uuid = 0
    /\ now = Period(2025, 6)
    /\ call = NoCall

\* the delete button of an account row
RemoveAccount ==
    /\ \E k \in 1..Len(data.accounts) :
          /\ data' = removeAccount(data, data.accounts[k].code)
          /\ call' = [fn |-> "removeAccount", code |-> data.accounts[k].code,
                      before |-> data]
    /\ UNCHANGED <<tz, ui, uuid, now>>

EvalCalculatePnL ==
    /\ \E type \in {ACTUAL, BUDGET, FORECAST} :
          call' = [fn |-> "calculatePnL", type |-> type,
                   result |-> calculatePnL(data.records, data.accounts, type)]
    /\ UNCHANGED <<tz, data, ui, uuid, now>>

EvalGenerateProfitWalk ==
    /\ \E planId \in {"P1", "P0"}, year \in {2024, 2025} :
          call' = [fn |-> "generateProfitWalk", planId |-> planId, year |-> year,
                   result |-> generateProfitWalk(data, planId, year)]
    /\ UNCHANGED <<tz, data, ui, uuid, now>>

NextRegistry ==
    \/ RemoveAccount
    \/ EvalCalculatePnL
    \/ EvalGenerateProfitWalk

SpecRegistry == InitRegistry /\ [][NextRegistry]_vars

----------------------------------------------------------------------------
(* Claims on unregistered accounts *)

\* the store d without the records whose account is in codes
Without(d, codes) ==
    [d EXCEPT !.records = SelectSeq(d.records, LAMBDA r : r.accountCode \notin codes)]

\* the account codes of the records that the registry does not hold
Unregistered(d) ==
    {d.records[k].accountCode : k \in 1..Len(d.records)}
        \ {d.accounts[k].code : k \in 1..Len(d.accounts)}

\* C20: the records of an account that is not in the registry add nothing to
\* any roll-up of calculatePnL nor to any total of generateProfitWalk, which
\* are defined on such stores; after removeAccount(code) the records are all
\* still in the store and every roll-up is what the registry before the
\* removal gave on the store without the records of that account.
C20_UnregisteredAccountsAddNothing ==
    /\ call.fn = "calculatePnL" =>
          call.result = calculatePnL(Without(data, Unregistered(data)).records,
                                     data.accounts, call.type)
    /\ call.fn = "generateProfitWalk" =>
          call.result = generateProfitWalk(Without(data, Unregistered(data)),
                                           call.planId, call.year)
    /\ call.fn = "removeAccount" =>
          /\ data.records = call.before.records
          /\ \A type \in {ACTUAL, BUDGET, FORECAST} :
                calculatePnL(data.records, data.accounts, type)
                    = calculatePnL(Without(call.before, {call.code}).records,
                                   call.before.accounts, type)
          /\ \A planId \in {"P1", "P0"}, year \in {2024, 2025} :
                generateProfitWalk(data, planId, year)
                    = generateProfitWalk(Without(call.before, {call.code}), planId, year)

\* the depreciation account was removed with its records in the store, and
\* the roll-up then computed has no depreciation and no record of the
\* unregistered accounts in it
C20_Witness ==
    /\ call.fn = "calculatePnL"
    /\ call.type = BUDGET
    /\ "EXP_DEP" \in Unregistered(data)
    /\ "EXP_OLD" \in Unregistered(data)
    /\ call.result.dep = 0
    /\ call.result.revenue # 0
    /\ call.result.opex # 0

----------------------------------------------------------------------------
(* Specification of generateProfitWalk: stores of two years, one call *)

\* actuals and plan records of 2024 and 2025 in three categories, a forecast
\* record of the plan, and records of another plan
WalkRecords ==
    <<Rec(0, Undefined, Period(2025, 1), ACTUAL, "REV_SUB", "200", "PL_IOT", 1000),
      Rec(0, Undefined, Period(2025, 12), ACTUAL, "COGS_HOST", "200", "PL_IOT", 300),
      Rec(0, Undefined, Period(2025, 6), ACTUAL, "EXP_MKT", "200", "PL_IOT", 200),
      Rec(0, Undefined, Period(2024, 12), ACTUAL, "REV_SUB", "200", "PL_IOT", 64),
      Rec(0, Undefined, Period(2024, 1), ACTUAL, "EXP_MKT", "200", "PL_IOT", 32),
      Rec(0, "P1", Period(2025, 1), BUDGET, "REV_SUB", "GEN_CC", "GEN_PL", 900),
      Rec(0, "P1", Period(2025, 2), BUDGET, "COGS_HOST", "GEN_CC", "GEN_PL", 250),
      Rec(0, "P1", Period(2025, 3), FORECAST, "EXP_MKT", "GEN_CC", "GEN_PL", 150),
      Rec(0, "P1", Period(2026, 1), BUDGET, "REV_SUB", "GEN_CC", "GEN_PL", 16),
      Rec(0, "P0", Period(2025, 1), BUDGET, "REV_SUB", "GEN_CC", "GEN_PL", 8),
      Rec(0, Undefined, Period(2025, 5), ACTUAL, "EXP_TAX", "GEN_CC", "GEN_PL", 4)>>

\* the years a walk is asked for: buildContext passes the year of the working
\* plan, which is the number typed when the plan was created
WalkYears == {2024, 2025, 2026, 202}

InitWalk ==
    /\ tz \in {"UTC"}
    /\ data \in {[EmptyData EXCEPT !.records = rs, !.accounts = Registry] :
                    rs \in SubSeqs(WalkRecords)}
    /\ activePlanId = Undefined
    /\ selectedAccountCode = Undefined
    /\ selectedProductLineCode = "All"
    /\ selectedCostCenterCode = "All"
    /\ draftMethod = "Trend"
    /\ draftParams = EmptyParams
    /\ uuid = 0
    /\ now = Period(2025, 6)
    /\ call = NoCall

CallGenerateProfitWalk ==
    /\ call = NoCall
    /\ \E planId \in {"P1", "P0"}, year \in WalkYears :
          call' = [fn |-> "generateProfitWalk", planId |-> planId, year |-> year,
                   result |-> generateProfitWalk(data, planId, year)]
    /\ UNCHANGED <<tz, data, ui, uuid, now>>

NextWalk == CallGenerateProfitWalk

SpecWalk == InitWalk /\ [][NextWalk]_vars

\* the total of a category over the records of the calendar year of the call
\* on one side: the Actual records, or the records of the plan of the call
SideTotal(side, cat) ==
    Reduce(Amounts(SelectSeq(data.records, LAMBDA r :
        /\ r.period # NoPeriod
        /\ YearOf(r.period) = call.year
        /\ IF side = "act" THEN r.type = ACTUAL ELSE r.planId = call.planId
        /\ getCategory(data.accounts, r.accountCode) = cat)))

\* C21: generateProfitWalk uses only the records whose period lies in the
\* given calendar year, Actual records on the actual side and the records of
\* the given plan on the plan side, and returns Revenue, GrossMargin = Revenue
\* - COGS and EBITDA = GrossMargin - OpEx on both sides, each diff being act -
\* plan of its line.
C21_WalkOfTheCalendarYear ==
    call.fn = "generateProfitWalk" =>
        LET o == call.result
        IN /\ \A side \in {"act", "plan"} :
                /\ o.Revenue[side] = SideTotal(side, "Revenue")
                /\ o.GrossMargin[side]
                      = Minus(SideTotal(side, "Revenue"), SideTotal(side, "COGS"))
                /\ o.EBITDA[side] = Minus(o.GrossMargin[side], SideTotal(side, "OpEx"))
           /\ \A line \in {"Revenue", "GrossMargin", "EBITDA"} :
                o[line].diff = Minus(o[line].act, o[line].plan)

----------------------------------------------------------------------------
(* Specification of repeated invocation: an engine function is called, the
   host's clock and time zone move, and it is called again on the arguments
   of the first call *)

\* the fields of a record other than id
WithoutId(r) == [f \in (DOMAIN r) \ {"id"} |-> r[f]]

WithoutIds(records) == [i \in 1..Len(records) |-> WithoutId(records[i])]

RepeatStores ==
    {[EmptyData EXCEPT !.records = rs, !.opportunities = ops] :
        rs \in {<<>>,
                <<Rec(0, "P1", Period(2025, 1), BUDGET, "EXP_MKT", "", "", 500)>>,
                <<Rec(0, Undefined, Period(2024, 1), ACTUAL, "EXP_MKT", "200", "PL_IOT", 100),
                  Rec(0, Undefined, Period(2024, 2), ACTUAL, "EXP_MKT", "200", "PL_IOT", 110)>>},
        ops \in {<<>>,
                 <<Item("Risk", 600, TRUE, "P1", Period(2025, 1), 2, "EXP_MKT", Undefined, Undefined)>>,
                 <<Item("Opportunity", 600, TRUE, "P1", NoPeriod, 1, "EXP_MKT", Undefined, Undefined)>>}}

HostClocks == {Period(2025, 1), Period(2025, 6)}

InitRepeat ==
    /\ tz \in TimeZones
    /\ data \in RepeatStores
    /\ activePlanId = Undefined
    /\ selectedAccountCode = Undefined
    /\ selectedProductLineCode = "All"
    /\ selectedCostCenterCode = "All"
    /\ draftMethod = "Trend"
    /\ draftParams = EmptyParams
    /\ uuid = 0
    /\ now \in HostClocks
    /\ call = NoCall

\* the host's time zone setting changes between two calls
HostChangesTimeZone ==
    /\ call.fn # "none" /\ call.calls = 1
    /\ tz' \in TimeZones \ {tz}
    /\ UNCHANGED <<data, ui, uuid, now, call>>

\* the host's clock reaches a later month between two calls
HostClockAdvances ==
    /\ call.fn # "none" /\ call.calls = 1
    /\ now' \in {t \in HostClocks : t > now}
    /\ UNCHANGED <<tz, data, ui, uuid, call>>

FirstGenerateForecast ==
    /\ call = NoCall
    /\ \E method \in Methods, startDate \in ForecastStarts :
       \E params \in ParamsOf(method), endDate \in {startDate, startDate + 1} :
          LET a == Assumption("a1", "P1", "EXP_MKT", Undefined, Undefined, method, params)
              result == generateForecast(tz, a, data, startDate, endDate, uuid)
          IN /\ call' = [fn |-> "generateForecast", calls |-> 1, assumption |-> a,
                         data |-> data, startDate |-> startDate, endDate |-> endDate,
                         first |-> result, result |-> result]
             /\ uuid' = uuid + Len(result)
    /\ UNCHANGED <<tz, data, ui, now>>

\* history is a fresh array (filter) sorted in place, so data is not written
SecondGenerateForecast ==
    /\ call.fn = "generateForecast" /\ call.calls = 1
    /\ LET result == generateForecast(tz, call.assumption, call.data,
                                      call.startDate, call.endDate, uuid)
       IN /\ call' = [call EXCEPT !.calls = 2, !.result = result]
          /\ uuid' = uuid + Len(result)
    /\ UNCHANGED <<tz, data, ui, now>>

FirstApplyRisksAndOps ==
    /\ call = NoCall
    /\ \E planId \in {"P1", "P2"} :
          LET result == applyRisksAndOps(data.records, data, planId, now, uuid)
          IN /\ call' = [fn |-> "applyRisksAndOps", calls |-> 1, planId |-> planId,
                         data |-> data, first |-> result, result |-> result]
             /\ uuid' = uuid + (Len(result) - Len(data.records))
             /\ data' = [data EXCEPT
                            !.records = InputAfter(data.records, data, planId, now, uuid)]
    /\ UNCHANGED <<tz, ui, now>>

SecondApplyRisksAndOps ==
    /\ call.fn = "applyRisksAndOps" /\ call.calls = 1
    /\ LET result == applyRisksAndOps(call.data.records, call.data, call.planId, now, uuid)
       IN /\ call' = [call EXCEPT !.calls = 2, !.result = result]
          /\ uuid' = uuid + (Len(result) - Len(call.data.records))
          /\ data' = [data EXCEPT
                         !.records = InputAfter(data.records, data, call.planId, now, uuid)]
    /\ UNCHANGED <<tz, ui, now>>

NextRepeat ==
    \/ HostChangesTimeZone
    \/ HostClockAdvances
    \/ FirstGenerateForecast
    \/ SecondGenerateForecast
    \/ FirstApplyRisksAndOps
    \/ SecondApplyRisksAndOps

SpecRepeat == InitRepeat /\ [][NextRepeat]_vars

\* C22: two invocations of generateForecast, and two of applyRisksAndOps, on
\* equal arguments return records equal in every field other than id,
\* whatever the host's clock and time zone at each call, and the AppData
\* passed in is the same after each call as before it
C22_EqualArgumentsEqualRecords ==
    (call.fn # "none" /\ call.calls = 2) =>
        /\ WithoutIds(call.result) = WithoutIds(call.first)
        /\ data = call.data

----------------------------------------------------------------------------
(* C23, C24: the Manual method and the default branch of generateForecast *)

\* C23: the Manual method gives each target month of the range exactly the
\* value params.manualValues holds for that period, and 0 for a target month
\* absent from the map or when there is no map.
C23_ManualValuePerTargetMonth ==
    IsForecastCall("Manual") =>
        /\ Len(call.result) = CallMonths
        /\ \A i \in 1..Len(call.result) :
              ResultAmounts[i] =
                 ManualValue(call.assumption.params, call.startDate + (i - 1))

\* C24: for a valid range a method generateForecast does not implement
\* (CustomFormula, or a string outside ForecastMethodType) returns exactly
\* monthCount records, all with amount 0.
C24_UnknownMethodIsAllZero ==
    (call.fn = "generateForecast"
        /\ call.assumption.method \notin {"Manual", "Trend", "GrowthYearOverYear", "PercentOfRevenue"}
        /\ CallMonths > 0)
    => /\ Len(call.result) = CallMonths
       /\ \A i \in 1..Len(call.result) : ResultAmounts[i] = 0

\* a string outside ForecastMethodType over several months, with a history
\* whose amounts are not 0
C24_Witness ==
    /\ IsForecastCall("Seasonal")
    /\ CallMonths >= 2
    /\ Len(call.result) = CallMonths
    /\ CallHistory # <<>>
    /\ CallHistory[Len(CallHistory)].amount # 0
    /\ \A i \in 1..Len(call.result) : ResultAmounts[i] = 0

----------------------------------------------------------------------------
(* C25: PercentOfRevenue and the plans of the store *)

\* the store without the records of other plans and without plan id
OfPlanOnly(d, planId) ==
    [d EXCEPT !.records = SelectSeq(d.records, LAMBDA r : r.planId = planId)]

\* C25: the revenue total of a PercentOfRevenue assumption of plan P counts
\* only the Budget records of plan P: each returned amount is the percentage
\* of the plan's own revenue of the record's period, and the store without
\* the records of other plans (or without plan id) gives the same amounts.
C25_RevenueOfThePlanOnly ==
    IsForecastCall("PercentOfRevenue") =>
        LET a == call.assumption
            own == OfPlanOnly(data, a.planId)
        IN /\ \A i \in 1..Len(call.result) :
                 ResultAmounts[i] =
                    Round(Rat(TotalRevenue(own, call.result[i].period)
                                 * OrZero(a.params, "percentOfRevenue"), 100))
           /\ ResultAmounts =
                 Amounts(generateForecast(tz, a, own, call.startDate, call.endDate, 0))

----------------------------------------------------------------------------
(* App: the snapshot in memory, the workspace files, the saves in flight,
   the initial load and the Excel import.  In this specification `data` is
   the App component's data state and `call` holds the rest of the shell:
   dirHandle, the position of the init effect, the files on disk, the saves
   handleDataUpdate has started, and the position of the import handler *)

FILES == [SETTINGS |-> "cfo_companion_settings.json",
          DATA |-> "cfo_companion_data.json",
          IMPROVEMENTS |-> "cfo_companion_improvements.json"]

FileNames == {FILES.SETTINGS, FILES.DATA, FILES.IMPROVEMENTS}

\* the object writeDataToDirectory writes to a file
FileData(d, filename) ==
    CASE filename = FILES.SETTINGS ->
            [accounts |-> d.accounts, costCenters |-> d.costCenters,
             productLines |-> d.productLines, plans |-> d.plans,
             assumptions |-> d.assumptions]
      [] filename = FILES.DATA -> [records |-> d.records]
      [] filename = FILES.IMPROVEMENTS -> [opportunities |-> d.opportunities]

\* the three files when writeDataToDirectory has written d and nothing else has
writeDataToDirectory(d) == [filename \in FileNames |-> FileData(d, filename)]

\* files: what readJsonFile returned for each of the three files
readDataFromDirectory(files) ==
    [accounts |-> files[FILES.SETTINGS].accounts,
     costCenters |-> files[FILES.SETTINGS].costCenters,
     productLines |-> files[FILES.SETTINGS].productLines,
     plans |-> files[FILES.SETTINGS].plans,
     assumptions |-> files[FILES.SETTINGS].assumptions,
     records |-> files[FILES.DATA].records,
     opportunities |-> files[FILES.IMPROVEMENTS].opportunities]

MaxUpdates == 2       \* calls of handleDataUpdate in one behaviour

\* INITIAL_DATA cut down to one account
INITIAL_DATA == [EmptyData EXCEPT !.accounts = <<Account("EXP_MKT", "OpEx")>>]

\* the workspace a stored handle points to
WorkspaceData ==
    [INITIAL_DATA EXCEPT
        !.plans = <<Plan("P1", Period(2025, 1), Period(2025, 12))>>,
        !.records = <<Rec(0, Undefined, Period(2025, 1), ACTUAL, "EXP_MKT", "GEN_CC", "GEN_PL", 100)>>]

NoImport == [pc |-> "idle"]

NoSnapshot == [happened |-> FALSE]

InitApp ==
    /\ tz = "UTC"
    /\ data = INITIAL_DATA
    /\ activePlanId = Undefined
    /\ selectedAccountCode = Undefined
    /\ selectedProductLineCode = "All"
    /\ selectedCostCenterCode = "All"
    /\ draftMethod = "Trend"
    /\ draftParams = EmptyParams
    /\ uuid = 0
    /\ now = Period(2025, 1)
    /\ call = [fn |-> "App", dirHandle |-> FALSE, init |-> "getStoredDirectoryHandle",
               read |-> <<>>, disk |-> writeDataToDirectory(WorkspaceData),
               saves |-> <<>>, import |-> NoImport,
               updates |-> 0, early |-> FALSE, denied |-> FALSE,
               beforeLoad |-> {}, afterLoad |-> NoSnapshot, afterImport |-> NoSnapshot]

\* handleDataUpdate as the closure of a render holds it: setData, and a save
\* started when that render's dirHandle is set
handleDataUpdate(app, newData, dirHandle) ==
    [app EXCEPT
        !.saves = IF dirHandle
                  THEN Append(@, [snapshot |-> newData, pc |-> "verifyPermission",
                                  closed |-> {}])
                  ELSE @,
        !.updates = @ + 1,
        !.early = @ \/ app.init # "done" \/ ~dirHandle]

\* init effect: await getStoredDirectoryHandle() resolves with the handle
StoredHandleFound ==
    /\ call.init = "getStoredDirectoryHandle"
    /\ call' = [call EXCEPT !.dirHandle = TRUE, !.init = "verifyPermission"]
    /\ UNCHANGED <<tz, data, ui, uuid, now>>

\* init effect: await verifyPermission(storedHandle, false)
InitPermission ==
    /\ call.init = "verifyPermission"
    /\ \E hasPerm \in BOOLEAN :
          call' = [call EXCEPT !.init = IF hasPerm THEN "readDataFromDirectory" ELSE "done"]
    /\ UNCHANGED <<tz, data, ui, uuid, now>>

\* init effect: one readJsonFile of readDataFromDirectory returns
ReadJsonFile ==
    /\ call.init = "readDataFromDirectory"
    /\ \E filename \in FileNames \ DOMAIN call.read :
          call' = [call EXCEPT !.read = @ @@ (filename :> call.disk[filename])]
    /\ UNCHANGED <<tz, data, ui, uuid, now>>

\* init effect: setData(fileData)
LoadFinishes ==
    /\ call.init = "readDataFromDirectory"
    /\ DOMAIN call.read = FileNames
    /\ data' = readDataFromDirectory(call.read)
    /\ call' = [call EXCEPT !.init = "done",
                            !.afterLoad = [happened |-> TRUE, mutations |-> call.beforeLoad,
                                           state |-> data']]
    /\ UNCHANGED <<tz, ui, uuid, now>>

\* the mutations a view has applied while the import parses, or before the
\* initial load has finished
Noted(app, mutation) ==
    [app EXCEPT
        !.beforeLoad = IF app.init # "done" THEN @ \cup {mutation} ELSE @,
        !.import = IF app.import.pc = "parsing"
                   THEN [@ EXCEPT !.during = @ \cup {mutation}] ELSE @]

\* Forecast view: handleCreatePlan with a name and the year 2026
CreatePlan ==
    /\ call.updates < MaxUpdates
    /\ LET newPlan == Plan(uuid + 1, Period(2026, 1), Period(2026, 12))
           newData == [data EXCEPT !.plans = Append(@, newPlan)]
       IN /\ data' = newData
          /\ call' = handleDataUpdate(Noted(call, <<"plans", uuid + 1>>), newData, call.dirHandle)
    /\ uuid' = uuid + 1
    /\ UNCHANGED <<tz, ui, now>>

\* Risk & Opps view: handleSave with title, impact and plan filled in
SaveOpportunity ==
    /\ call.updates < MaxUpdates
    /\ LET item == [id |-> uuid + 1]
                     @@ Item("Opportunity", 600, FALSE, "P1", now, 12, "", "", "")
           newData == [data EXCEPT !.opportunities = Append(@, item)]
       IN /\ data' = newData
          /\ call' = handleDataUpdate(Noted(call, <<"opportunities", uuid + 1>>), newData, call.dirHandle)
    /\ uuid' = uuid + 1
    /\ UNCHANGED <<tz, ui, now>>

\* Settings view: the onChange handler of the file input starts
\* parseHyperionActuals; the handler keeps the data and onUpdate of its render
ImportStarts ==
    /\ call.updates < MaxUpdates
    /\ call.import.pc = "idle"
    /\ \E rawRows \in {<<>>, <<Row(Period(2025, 1), "EXP_MKT", "GEN_CC", "GEN_PL", <<40>>)>>} :
          call' = [call EXCEPT !.import = [pc |-> "parsing", rawRows |-> rawRows,
                                           data |-> data, dirHandle |-> call.dirHandle,
                                           during |-> {}]]
    /\ UNCHANGED <<tz, data, ui, uuid, now>>

\* Settings view: parseHyperionActuals resolves and the handler merges
ImportCompletes ==
    /\ call.import.pc = "parsing"
    /\ LET newRecords == parseHyperionActuals(call.import.rawRows, uuid)
           newData == [call.import.data EXCEPT !.records = ImportedStore(@, newRecords)]
       IN /\ uuid' = uuid + Len(newRecords)
          /\ IF Len(newRecords) > 0
             THEN /\ data' = newData
                  /\ call' = [handleDataUpdate(call, newData, call.import.dirHandle) EXCEPT
                                 !.import = NoImport,
                                 !.afterImport = [happened |-> TRUE,
                                                  mutations |-> call.import.during,
                                                  imported |-> newRecords,
                                                  state |-> newData]]
             ELSE /\ data' = data
                  /\ call' = [call EXCEPT !.import = NoImport]
    /\ UNCHANGED <<tz, ui, now>>

\* handleDataUpdate: await verifyPermission(dirHandle, true)
SavePermission ==
    \E i \in 1..Len(call.saves), hasPerm \in BOOLEAN :
        /\ call.saves[i].pc = "verifyPermission"
        /\ call' = [call EXCEPT
                       !.saves[i].pc = IF hasPerm THEN "writeDataToDirectory" ELSE "denied",
                       !.denied = @ \/ ~hasPerm]
        /\ UNCHANGED <<tz, data, ui, uuid, now>>

\* writeJsonFile: writable.close() puts what the save wrote in place of the file
WritableCloses ==
    \E i \in 1..Len(call.saves), filename \in FileNames :
        /\ call.saves[i].pc = "writeDataToDirectory"
        /\ filename \notin call.saves[i].closed
        /\ call' = [call EXCEPT
                       !.disk[filename] = FileData(call.saves[i].snapshot, filename),
                       !.saves[i].closed = @ \cup {filename},
                       !.saves[i].pc = IF call.saves[i].closed \cup {filename} = FileNames
                                       THEN "saved" ELSE @]
        /\ UNCHANGED <<tz, data, ui, uuid, now>>

NextApp ==
    \/ StoredHandleFound
    \/ InitPermission
    \/ ReadJsonFile
    \/ LoadFinishes
    \/ CreatePlan
    \/ SaveOpportunity
    \/ ImportStarts
    \/ ImportCompletes
    \/ SavePermission
    \/ WritableCloses

SpecApp == InitApp /\ [][NextApp]_vars

\* no save is between its start and its end
NoSavePending ==
    \A i \in 1..Len(call.saves) : call.saves[i].pc \in {"saved", "denied"}

\* C26: with a connected workspace, for any sequence of updates through
\* handleDataUpdate, a later one issued while an earlier save is in flight
\* included, once all pending saves have completed the three workspace files
\* together hold exactly the most recent snapshot in memory.
C26_LastWriteWinsOnDisk ==
    (/\ call.init = "done"
     /\ call.updates > 0
     /\ ~call.early
     /\ ~call.denied
     /\ NoSavePending)
    => call.disk = writeDataToDirectory(data)

\* the snapshot holds what a mutation added
Holds(d, mutation) ==
    \E i \in 1..Len(d[mutation[1]]) : d[mutation[1]][i].id = mutation[2]

\* C27: whole-snapshot replacement loses no update: the state after an Excel
\* import holds every mutation applied between the start of its parsing and
\* its completion together with the imported records, and the state after
\* the initial workspace load holds every mutation applied before the load
\* finished.
C27_ReplacementLosesNoUpdate ==
    /\ call.afterImport.happened =>
          /\ \A mutation \in call.afterImport.mutations :
                Holds(call.afterImport.state, mutation)
          /\ \A k \in 1..Len(call.afterImport.imported) :
                \E i \in 1..Len(call.afterImport.state.records) :
                   call.afterImport.state.records[i] = call.afterImport.imported[k]
    /\ call.afterLoad.happened =>
          \A mutation \in call.afterLoad.mutations :
             Holds(call.afterLoad.state, mutation)

----------------------------------------------------------------------------
(* Forecast view and Risk & Opps view over one store: plans are created,
   committed to, given register entries and deleted; the host is in UTC *)

MaxPlans == 2         \* ids drawn so far beyond which no plan is created
MaxEntries == 1       \* register entries beyond which none is added

\* crypto.randomUUID() as the id of a plan: the text of the k-th id drawn
UuidText ==
    <<"u1", "u2", "u3", "u4", "u5", "u6", "u7", "u8", "u9", "u10",
      "u11", "u12", "u13", "u14", "u15", "u16", "u17", "u18", "u19", "u20",
      "u21", "u22", "u23", "u24", "u25", "u26", "u27", "u28", "u29", "u30">>

\* what the user leaves in the year prompt; '' stands for an emptied or a
\* cancelled prompt
YearInputs == {"2026", "", "abc"}

\* parseInt: <<n>> for a number, <<>> for NaN
ParseInt(text) ==
    CASE text = "2026" -> <<2026>>
      [] OTHER -> <<>>

\* `${year}-01` and `${year}-12`
PlanDate(year, month) ==
    IF year = <<>> THEN (IF month = 1 THEN NaNJanuary ELSE NaNDecember)
    ELSE Period(year[1], month)

\* one plan, an Actual record and a record of the plan
PlansStore ==
    [EmptyData EXCEPT
        !.accounts = <<Account("EXP_MKT", "OpEx")>>,
        !.plans = <<Plan("P1", Period(2025, 1), Period(2025, 12))>>,
        !.records =
            <<Rec(0, Undefined, Period(2024, 12), ACTUAL, "EXP_MKT", "GEN_CC", "GEN_PL", 100),
              Rec(0, "P1", Period(2025, 1), BUDGET, "REV_HW", "GEN_CC", "GEN_PL", 1000)>>]

InitPlans ==
    /\ tz = "UTC"
    /\ data = PlansStore
    /\ activePlanId = "P1"
    /\ selectedAccountCode = Undefined
    /\ selectedProductLineCode = "All"
    /\ selectedCostCenterCode = "All"
    /\ draftMethod = "Trend"
    /\ draftParams = EmptyParams
    /\ uuid = 0
    /\ now = Period(2025, 6)
    /\ call = NoCall

\* handleCreatePlan with a name typed in; yearStr || the current year
HandleCreatePlan ==
    /\ uuid < MaxPlans
    /\ uuid < Len(UuidText)
    /\ \E yearStr \in YearInputs :
          LET year == IF yearStr = "" THEN <<YearOf(now)>> ELSE ParseInt(yearStr)
              newPlan == Plan(UuidText[uuid + 1], PlanDate(year, 1), PlanDate(year, 12))
          IN /\ data' = [data EXCEPT !.plans = Append(@, newPlan)]
             /\ activePlanId' = newPlan.id
             /\ LoadDraft(data', newPlan.id, selectedAccountCode, selectedProductLineCode,
                          selectedCostCenterCode)
             /\ call' = [fn |-> "handleCreatePlan", yearStr |-> yearStr, plan |-> newPlan]
    /\ uuid' = uuid + 1
    /\ UNCHANGED <<tz, selectedAccountCode, selectedProductLineCode,
                   selectedCostCenterCode, now>>

\* what the parameter inputs of a method tab merge into the draft
ParamPatches(method) ==
    CASE method = "GrowthYearOverYear" -> {[growthRate |-> 10]}
      [] method = "PercentOfRevenue" -> {[percentOfRevenue |-> 30]}
      [] method = "Manual" -> {[manualValues |-> (Period(2025, 1) :> 500)]}
      [] OTHER -> {}

\* setDraftParams({ ...draftParams, [field]: value })
SetDraftParams ==
    /\ Truthy(selectedAccountCode)
    /\ \E patch \in ParamPatches(draftMethod) : draftParams' = patch @@ draftParams
    /\ UNCHANGED <<tz, data, activePlanId, selectedAccountCode, selectedProductLineCode,
                   selectedCostCenterCode, draftMethod, uuid, now, call>>

\* Risk & Opps view: handleSave with title and impact filled in and a plan of
\* the select
HandleSave ==
    /\ Len(data.opportunities) < MaxEntries
    /\ \E k \in 1..Len(data.plans) :
          LET item == [id |-> uuid + 1]
                        @@ Item("Risk", 600, TRUE, data.plans[k].id, now, 12,
                                "EXP_MKT", "", "")
          IN data' = [data EXCEPT !.opportunities = Append(@, item)]
    /\ uuid' = uuid + 1
    /\ call' = [fn |-> "handleSave"]
    /\ UNCHANGED <<tz, ui, now>>

NextPlans ==
    \/ HandleCreatePlan
    \/ SetActivePlanId
    \/ SetSelectedAccountCode
    \/ HandleCommitForecast
    \/ HandleDeletePlan
    \/ HandleSave

SpecPlans == InitPlans /\ [][NextPlans]_vars

----------------------------------------------------------------------------
(* Forecast view on one plan: an account is selected, a method and its
   parameters are drafted, and the draft is committed, again and again *)

InitCommit ==
    /\ tz \in TimeZones
    /\ data = [PlansStore EXCEPT
                  !.accounts = <<Account("EXP_MKT", "OpEx"), Account("REV_SUB", "Revenue")>>]
    /\ activePlanId = "P1"
    /\ selectedAccountCode = Undefined
    /\ selectedProductLineCode = "All"
    /\ selectedCostCenterCode = "All"
    /\ draftMethod = "Trend"
    /\ draftParams = EmptyParams
    /\ uuid = 0
    /\ now = Period(2025, 6)
    /\ call = NoCall

NextCommit ==
    \/ SetSelectedAccountCode
    \/ SetDraftMethod
    \/ SetDraftParams
    \/ HandleCommitForecast

SpecCommit == InitCommit /\ [][NextCommit]_vars

\* C28: committing the same assumption twice in succession, with no other
\* change in between, leaves the same assumptions and the same records,
\* ignoring record ids, as committing it once; for every method and every
\* target account.
C28_CommitTwiceIsCommitOnce ==
    [][(/\ IsCommit
        /\ call'.fn = "handleCommitForecast"
        /\ call' # call
        /\ call'.assumption = call.assumption)
       => /\ WithoutIds(data'.records) = WithoutIds(data.records)
          /\ data'.assumptions = data.assumptions]_vars

----------------------------------------------------------------------------
(* Claims about plans: C29, C30 *)

\* the ids of the stored plans
PlanIdsOf(d) == {d.plans[k].id : k \in 1..Len(d.plans)}

\* C29: after handleDeletePlan, and after any sequence of plan creations,
\* commits, register additions and plan deletions, every assumption, every
\* plan-tagged record and every register entry refers to a plan still in
\* data.plans; a deletion leaves the Actual records and the records and
\* assumptions of other plans as they were.
C29_NoDanglingPlanReference ==
    /\ \A k \in 1..Len(data.assumptions) : data.assumptions[k].planId \in PlanIdsOf(data)
    /\ \A k \in 1..Len(data.records) :
          data.records[k].planId # Undefined => data.records[k].planId \in PlanIdsOf(data)
    /\ \A k \in 1..Len(data.opportunities) :
          data.opportunities[k].planId \in PlanIdsOf(data)
    /\ (call # NoCall /\ call.fn = "handleDeletePlan") =>
          /\ data.records
               = SelectSeq(call.before.records, LAMBDA r :
                    r.type = ACTUAL \/ r.planId # call.planId)
          /\ data.assumptions
               = SelectSeq(call.before.assumptions, LAMBDA a : a.planId # call.planId)

\* a plan whose dates are the January and the December of one year
WellFormedPlan(plan) ==
    /\ plan.startDate >= 0
    /\ MonthOf(plan.startDate) = 1
    /\ plan.endDate = plan.startDate + 11

\* C30: every plan created through handleCreatePlan, whatever is typed at the
\* year prompt, has a startDate YYYY-01 and an endDate YYYY-12 of one year,
\* and generateForecast over a stored plan's range returns exactly 12
\* records and does not throw.
C30_CreatedPlansForecastTwelveMonths ==
    /\ \A k \in 1..Len(data.plans) : WellFormedPlan(data.plans[k])
    /\ IsCommit => (~call.threw /\ Len(call.result) = 12)

====
